---- MODULE Spec2Model ----
(***************************************************************************)
(* A model of the parsing core of dashboard.py: the column deduplicator,   *)
(* the three sheet parsers (ICIC ledger, CANARA statement, investments)    *)
(* the loader that runs them in one refresh, and the callback that fetches *)
(* and stores the tables.                                                  *)
(*                                                                         *)
(* Text.  A Python str is modelled as a sequence of lexemes.  A lexeme is  *)
(* a TLA+ string standing for the characters it spells: one whitespace     *)
(* character, one punctuation character, one digit, or one word.  The      *)
(* lexemes are chosen so that no string has two spellings, hence equality  *)
(* of sequences is equality of the strings.  str.strip, str.upper, the     *)
(* `in` substring test, str.replace(",", "") and the two re.sub calls are  *)
(* computed on the lexemes.                                                *)
(*                                                                         *)
(* Tables.  A DataFrame is the sequence of its rows in index order; a raw  *)
(* grid row is a sequence of cells, a parsed row is a record.              *)
(***************************************************************************)
EXTENDS Integers, Sequences, FiniteSets, TLC

\* One call of a parser or of the deduplicator: its argument, its locals and
\* what it returns.
VARIABLES pc, column_list, unique_list, df_raw, pairs, frames, df_result,
          error_message, raised

\* The dashboard: what the latest fetch met (the credentials, the spreadsheet,
\* the three worksheets), the dcc.Store components, the status output and the
\* lines the latest fetch printed.
VARIABLES credentials, spreadsheet, worksheets,
          stored_icic_data, stored_canara_data, stored_investments_data,
          loading_error_message, data_load_status, printed

\* A metrics callback: the two filter values it takes as inputs next to a
\* store, and what it returns.
VARIABLES selected_months, selected_categories, outputs

\* The goal calculator: the clicks of its button and its two number inputs,
\* each absent (<<>>) or a number n (<<n>>), and what it returns.
VARIABLES goal_clicks, target_amount, duration, goal_output

\* The triggers of the fetch callback: the two properties it takes as inputs,
\* the calls of it that have not returned yet, and the calls whose outputs
\* were written, in the order they were written.
VARIABLES n_intervals, n_clicks, requests, applied

callvars == <<pc, column_list, unique_list, df_raw, pairs, frames, df_result,
              error_message, raised>>

appvars == <<credentials, spreadsheet, worksheets,
             stored_icic_data, stored_canara_data, stored_investments_data,
             loading_error_message, data_load_status, printed>>

reqvars == <<n_intervals, n_clicks, requests, applied>>

goalvars == <<goal_clicks, target_amount, duration, goal_output>>

kpivars == <<selected_months, selected_categories, outputs, goalvars>>

vars == <<callvars, appvars, reqvars, kpivars>>

(***************************************************************************)
(* Bounds of the model.                                                    *)
(***************************************************************************)
MaxList == 4
MaxCols == 4
MaxRows == 2
MaxExtra == 1

(***************************************************************************)
(* Python's None, and the value of a variable a specification leaves out.  *)
(***************************************************************************)
None == "None"
Unused == "-"

\* a specification without the metrics callbacks leaves their values out
NoGoal ==
    /\ goal_clicks = Unused /\ target_amount = Unused /\ duration = Unused
    /\ goal_output = Unused

NoKpi ==
    /\ selected_months = Unused /\ selected_categories = Unused /\ outputs = Unused
    /\ NoGoal

\* a specification without overlapping fetches leaves the triggers out
NoReq ==
    /\ n_intervals = Unused /\ n_clicks = Unused
    /\ requests = Unused /\ applied = Unused

\* a specification of one call leaves the dashboard out
NoApp ==
    /\ credentials = Unused /\ spreadsheet = Unused /\ worksheets = Unused
    /\ stored_icic_data = Unused /\ stored_canara_data = Unused
    /\ stored_investments_data = Unused
    /\ loading_error_message = Unused /\ data_load_status = Unused
    /\ printed = Unused
    /\ NoReq
    /\ NoKpi

(***************************************************************************)
(* str: strip, upper, in.                                                  *)
(***************************************************************************)
IsSpace(c) == c = " "

RECURSIVE LStrip(_)
LStrip(s) == IF s # <<>> /\ IsSpace(Head(s)) THEN LStrip(Tail(s)) ELSE s

RECURSIVE RStrip(_)
RStrip(s) ==
    IF s # <<>> /\ IsSpace(s[Len(s)]) THEN RStrip(SubSeq(s, 1, Len(s) - 1)) ELSE s

Strip(s) == RStrip(LStrip(s))

UpperLex(c) ==
    CASE c = "Expenses" -> "EXPENSES"
      [] c = "Category" -> "CATEGORY"
      [] c = "Amount"   -> "AMOUNT"
      [] c = "Spent"    -> "SPENT"
      [] c = "in"       -> "IN"
      [] c = "Invested" -> "INVESTED"
      [] c = "Jan"      -> "JAN"
      [] c = "Feb"      -> "FEB"
      [] c = "Food"     -> "FOOD"
      [] c = "Rent"     -> "RENT"
      [] c = "Notes"    -> "NOTES"
      [] c = "abc"      -> "ABC"
      [] c = "Kumaran"  -> "KUMARAN"
      [] OTHER          -> c

Upper(s) == [i \in 1..Len(s) |-> UpperLex(s[i])]

Contains(s, sub) ==
    \E i \in 1..(Len(s) - Len(sub) + 1) : SubSeq(s, i, i + Len(sub) - 1) = sub

Digit(d) ==
    CASE d = 0 -> "0" [] d = 1 -> "1" [] d = 2 -> "2" [] d = 3 -> "3"
      [] d = 4 -> "4" [] d = 5 -> "5" [] d = 6 -> "6" [] d = 7 -> "7"
      [] d = 8 -> "8" [] d = 9 -> "9"

RECURSIVE IntToStr(_)
IntToStr(n) == IF n < 10 THEN <<Digit(n)>> ELSE Append(IntToStr(n \div 10), Digit(n % 10))

InList(x, list) == \E i \in 1..Len(list) : list[i] = x

(***************************************************************************)
(* make_unique_column_names                                                *)
(***************************************************************************)
SeenGet(seen, key) == IF key \in DOMAIN seen THEN seen[key] ELSE 0

SeenPut(seen, key, count) ==
    [k \in DOMAIN seen \cup {key} |-> IF k = key THEN count ELSE seen[k]]

\* a suffix that numbers the repeats from 0
SuffixedFromZero(original_col_name, count) ==
    original_col_name \o <<"_">> \o IntToStr(count - 1)

Suffixed(original_col_name, count) ==
    original_col_name \o <<"_">> \o IntToStr(count)

\* The while loop: the count it ends with, started from count with the
\* current name current_col_name.
RECURSIVE WhileInList(_, _, _, _)
WhileInList(original_col_name, current_col_name, count, list) ==
    IF InList(current_col_name, list)
    THEN WhileInList(original_col_name, Suffixed(original_col_name, count + 1),
                     count + 1, list)
    ELSE [count |-> count, current_col_name |-> current_col_name]

\* A deduplicator whose `while` is an `if`: one suffix attempt per label.
IfInList(original_col_name, current_col_name, count, list) ==
    IF InList(current_col_name, list)
    THEN [count |-> count + 1,
          current_col_name |-> Suffixed(original_col_name, count + 1)]
    ELSE [count |-> count, current_col_name |-> current_col_name]

RECURSIVE UniqueLoopIf(_, _, _)
UniqueLoopIf(cols, seen, list) ==
    IF cols = <<>> THEN list
    ELSE LET original_col_name == Strip(Head(cols))
             w == IfInList(original_col_name, original_col_name,
                           SeenGet(seen, original_col_name), list)
         IN  UniqueLoopIf(Tail(cols), SeenPut(seen, original_col_name, w.count),
                          Append(list, w.current_col_name))

make_unique_column_names_if(cols) == UniqueLoopIf(cols, <<>>, <<>>)

\* a deduplicator that only trims: repeated labels stay as they are
make_unique_column_names_trim(cols) == [i \in 1..Len(cols) |-> Strip(cols[i])]

\* the for loop: seen and unique_list after each label
RECURSIVE UniqueLoop(_, _, _)
UniqueLoop(cols, seen, list) ==
    IF cols = <<>> THEN list
    ELSE LET original_col_name == Strip(Head(cols))
             w == WhileInList(original_col_name, original_col_name,
                              SeenGet(seen, original_col_name), list)
         IN  UniqueLoop(Tail(cols), SeenPut(seen, original_col_name, w.count),
                        Append(list, w.current_col_name))

make_unique_column_names(cols) == UniqueLoop(cols, <<>>, <<>>)

(***************************************************************************)
(* Numbers.  pd.to_numeric(..., errors="coerce") on a str: NaN, or the     *)
(* value v in hundredths (1,234.50 is 123450) as <<v>>.  The cells of the   *)
(* model carry at most two decimals.  The parser skips surrounding         *)
(* whitespace and reads an optional sign, digits and an optional fraction. *)
(***************************************************************************)
NaN == <<>>
Num(v) == <<v>>

DigitVal(c) ==
    CASE c = "0" -> 0 [] c = "1" -> 1 [] c = "2" -> 2 [] c = "3" -> 3
      [] c = "4" -> 4 [] c = "5" -> 5 [] c = "6" -> 6 [] c = "7" -> 7
      [] c = "8" -> 8 [] c = "9" -> 9 [] OTHER -> -1

IsDigits(s) == \A i \in 1..Len(s) : DigitVal(s[i]) >= 0

RECURSIVE DigitsVal(_)
DigitsVal(s) ==
    IF s = <<>> THEN 0 ELSE 10 * DigitsVal(SubSeq(s, 1, Len(s) - 1)) + DigitVal(s[Len(s)])

\* str.replace(",", "")
RECURSIVE RemoveCommas(_)
RemoveCommas(s) ==
    IF s = <<>> THEN <<>>
    ELSE IF Head(s) = "," THEN RemoveCommas(Tail(s))
    ELSE <<Head(s)>> \o RemoveCommas(Tail(s))

DotAt(s) == IF InList(".", s) THEN CHOOSE i \in 1..Len(s) : s[i] = "." /\ \A j \in 1..(i - 1) : s[j] # "." ELSE 0

Unsigned(s) ==
    LET d == DotAt(s)
        whole == IF d = 0 THEN s ELSE SubSeq(s, 1, d - 1)
        frac == IF d = 0 THEN <<>> ELSE SubSeq(s, d + 1, Len(s))
    IN  IF /\ IsDigits(whole) /\ IsDigits(frac) /\ Len(whole) + Len(frac) > 0
           /\ Len(frac) <= 2
        THEN Num(100 * DigitsVal(whole)
                 + (IF Len(frac) = 1 THEN 10 * DigitsVal(frac) ELSE DigitsVal(frac)))
        ELSE NaN

to_numeric(s) ==
    LET t == Strip(s)
        signed == t # <<>> /\ Head(t) \in {"-", "+"}
        u == Unsigned(IF signed THEN Tail(t) ELSE t)
    IN  IF u = NaN THEN NaN
        ELSE IF signed /\ Head(t) = "-" THEN Num(0 - u[1]) ELSE u

\* Series.fillna(0), which also ends the column's being nullable
fillna0(x) == IF x = NaN THEN 0 ELSE x[1]

(***************************************************************************)
(* DataFrame basics on a raw grid.                                         *)
(***************************************************************************)
\* DataFrame.empty: no rows or no columns
Empty(df) == Len(df) = 0 \/ Len(df[1]) = 0

NCols(df) == IF Len(df) = 0 THEN 0 ELSE Len(df[1])

\* a parser's return value, and whether it raised instead of returning
Returned(df, err) == [df |-> df, error |-> err, raised |-> FALSE]
Raised == [df |-> <<>>, error |-> None, raised |-> TRUE]

(***************************************************************************)
(* process_icic_salary_data                                                *)
(***************************************************************************)
EXPENSES_CATEGORY == <<"EXPENSES", " ", "CATEGORY">>
AMOUNT_SPENT_IN == <<"AMOUNT", " ", "SPENT", " ", "IN">>

ICIC_EMPTY == "Raw DataFrame for ICIC is empty."
ICIC_NO_HEADER == "Could not find 'EXPENSES CATEGORY' header in ICIC sheet."
ICIC_NO_PAIRS == "Could not pair category with amount columns in ICIC sheet."

\* any("EXPENSES CATEGORY" in x for x in row_upper)
RowHasMarker(row) ==
    \E c \in 1..Len(row) : Contains(Upper(Strip(row[c])), EXPENSES_CATEGORY)

\* the for loop with its break: the first matching row, 0 for the code's -1
RECURSIVE ScanHeader(_, _)
ScanHeader(df, r_idx) ==
    IF r_idx > Len(df) THEN 0
    ELSE IF RowHasMarker(df[r_idx]) THEN r_idx
    ELSE ScanHeader(df, r_idx + 1)

\* the loop without its break: the last matching row
RECURSIVE ScanHeaderLast(_, _)
ScanHeaderLast(df, r_idx) ==
    IF r_idx = 0 THEN 0
    ELSE IF RowHasMarker(df[r_idx]) THEN r_idx
    ELSE ScanHeaderLast(df, r_idx - 1)

category_header_row_last(df) == ScanHeaderLast(df, Len(df))

category_header_row(df) == ScanHeader(df, 1)

is_category(colname) == Contains(Upper(colname), EXPENSES_CATEGORY)

is_amount(colname) == Contains(Upper(colname), AMOUNT_SPENT_IN)

\* for cj in range(ai - 1, -1, -1): ... break; 0 for the code's None
RECURSIVE ScanBack(_, _)
ScanBack(cols, cj) ==
    IF cj < 1 THEN 0
    ELSE IF is_category(cols[cj]) THEN cj
    ELSE ScanBack(cols, cj - 1)

\* a backward scan that starts at the leftmost column instead
RECURSIVE ScanForward(_, _, _)
ScanForward(cols, cj, ai) ==
    IF cj >= ai THEN 0
    ELSE IF is_category(cols[cj]) THEN cj
    ELSE ScanForward(cols, cj + 1, ai)

cat_idx_leftmost(cols, ai) == ScanForward(cols, 1, ai)

cat_idx(cols, ai) == ScanBack(cols, ai - 1)

\* the pairs loop over amt_cols_idx, in increasing ai
RECURSIVE PairsFrom(_, _)
PairsFrom(cols, ai) ==
    IF ai > Len(cols) THEN <<>>
    ELSE IF is_amount(cols[ai]) /\ cat_idx(cols, ai) # 0
    THEN <<[cat_col |-> cols[cat_idx(cols, ai)], amt_col |-> cols[ai]]>>
         \o PairsFrom(cols, ai + 1)
    ELSE PairsFrom(cols, ai + 1)

icic_pairs(cols) == PairsFrom(cols, 1)

\* re.sub(r"(?i)amount\s*spent\s*in", "", s)
RECURSIVE RemovePhrase(_)
RemovePhrase(s) ==
    IF s = <<>> THEN <<>>
    ELSE LET r1 == LStrip(Tail(s))
             r2 == IF r1 = <<>> THEN <<>> ELSE LStrip(Tail(r1))
         IN  IF /\ UpperLex(Head(s)) = "AMOUNT"
                /\ r1 # <<>> /\ UpperLex(Head(r1)) = "SPENT"
                /\ r2 # <<>> /\ UpperLex(Head(r2)) = "IN"
             THEN RemovePhrase(Tail(r2))
             ELSE <<Head(s)>> \o RemovePhrase(Tail(s))

\* re.sub(r"\s+", " ", s)
RECURSIVE CollapseSpaces(_)
CollapseSpaces(s) ==
    IF s = <<>> THEN <<>>
    ELSE IF IsSpace(Head(s)) THEN <<" ">> \o CollapseSpaces(LStrip(s))
    ELSE <<Head(s)>> \o CollapseSpaces(Tail(s))

clean_month_label(amt_header) == CollapseSpaces(Strip(RemovePhrase(amt_header)))

\* df_data[name]: the position of the column of that name
ColOf(cols, name) == CHOOSE i \in 1..Len(cols) : cols[i] = name

\* one iteration of `for cat_col, amt_col in pairs`: the frame tmp
RECURSIVE FrameRows(_, _, _, _)
FrameRows(df_data, ci, ai, month) ==
    IF df_data = <<>> THEN <<>>
    ELSE LET row == Head(df_data)
             rest == FrameRows(Tail(df_data), ci, ai, month)
         IN  IF Strip(row[ci]) # <<>>
             THEN <<[Category |-> Strip(row[ci]),
                     Amount |-> to_numeric(RemoveCommas(row[ai])),
                     Month |-> month]>> \o rest
             ELSE rest

icic_frame(df_data, cols, pair) ==
    FrameRows(df_data, ColOf(cols, pair.cat_col), ColOf(cols, pair.amt_col),
              clean_month_label(pair.amt_col))

\* a concat that stacks the frames from the last pair to the first
RECURSIVE icic_concat_reversed(_, _, _)
icic_concat_reversed(df_data, cols, prs) ==
    IF prs = <<>> THEN <<>>
    ELSE icic_concat_reversed(df_data, cols, Tail(prs)) \o icic_frame(df_data, cols, Head(prs))

\* pd.concat(frames, ignore_index=True)
RECURSIVE icic_concat(_, _, _)
icic_concat(df_data, cols, prs) ==
    IF prs = <<>> THEN <<>>
    ELSE icic_frame(df_data, cols, Head(prs)) \o icic_concat(df_data, cols, Tail(prs))

\* a dropna that keeps every row
dropna_none(df) == df

\* df.dropna(subset=["Amount"])
dropna_Amount(df) == SelectSeq(df, LAMBDA rec : rec.Amount # NaN)

\* df["Amount"] = df["Amount"].fillna(0)
fillna_Amount(df) == [i \in 1..Len(df) |-> [df[i] EXCEPT !.Amount = fillna0(@)]]

process_icic_salary_data(df) ==
    IF Empty(df) THEN Returned(<<>>, ICIC_EMPTY)
    ELSE LET h == category_header_row(df)
         IN  IF h = 0 THEN Returned(<<>>, ICIC_NO_HEADER)
             ELSE LET unique_cols == make_unique_column_names(df[h])
                      df_data == SubSeq(df, h + 1, Len(df))
                      prs == icic_pairs(unique_cols)
                  IN  IF prs = <<>> THEN Returned(<<>>, ICIC_NO_PAIRS)
                      ELSE Returned(
                               fillna_Amount(dropna_Amount(
                                   icic_concat(df_data, unique_cols, prs))),
                               None)

(***************************************************************************)
(* process_canara_data                                                     *)
(***************************************************************************)
CANARA_EMPTY == "Raw DataFrame for CANARA is empty."
CANARA_INSUFFICIENT == "CANARA sheet has insufficient rows for data."

\* iloc[4:, :5]: the rows skipped and the columns named
CANARA_SKIP == 4
CANARA_COLS == 5

\* a row test that lets a grid of exactly four rows through
insufficient_rows_lt(df) == Len(df) < CANARA_SKIP

\* len(df_raw) <= 4
insufficient_rows(df) == Len(df) <= CANARA_SKIP

canara_row(row) ==
    [Month |-> Strip(row[1]),
     Description |-> row[2],
     Category |-> Strip(row[3]),
     Debit |-> fillna0(to_numeric(RemoveCommas(row[4]))),
     Credit |-> fillna0(to_numeric(RemoveCommas(row[5])))]

\* a filter that wants both amounts non-zero
canara_keep_both(rec) == rec.Debit # 0 /\ rec.Credit # 0

\* (df_data["Debit"] != 0) | (df_data["Credit"] != 0)
canara_keep(rec) == rec.Debit # 0 \/ rec.Credit # 0

process_canara_data(df) ==
    IF Empty(df) THEN Returned(<<>>, CANARA_EMPTY)
    ELSE IF insufficient_rows(df) THEN Returned(<<>>, CANARA_INSUFFICIENT)
    ELSE IF NCols(df) < CANARA_COLS THEN Raised
    ELSE LET df_data == [i \in 1..(Len(df) - CANARA_SKIP) |-> canara_row(df[i + CANARA_SKIP])]
         IN  Returned(SelectSeq(df_data, canara_keep), None)

(***************************************************************************)
(* process_investments_data                                                *)
(***************************************************************************)
AMOUNT_INVESTED == <<"AMOUNT", " ", "INVESTED">>

INV_EMPTY == "Raw DataFrame for Investments is empty or has insufficient columns."
INV_NO_DATA == "No valid investment data found."

\* a frame that reads Month and Amount from the wrong columns of the pair
inv_frame_swapped(df, i) ==
    [r \in 1..(Len(df) - 1) |->
        [Category |-> Strip(df[1][i]), Month |-> df[r + 1][i + 1], Amount |-> df[r + 1][i]]]

\* tmp_df: the rows below row 0, columns i and i+1, under the label of column i
inv_frame(df, i) ==
    [r \in 1..(Len(df) - 1) |->
        [Category |-> Strip(df[1][i]), Month |-> df[r + 1][i], Amount |-> df[r + 1][i + 1]]]

\* the loop over range(len(header_row)); header_row[i+1] past the end is the
\* IndexError the loop continues on
RECURSIVE FramesFrom(_, _)
FramesFrom(df, i) ==
    LET header_row == df[1]
    IN  IF i > Len(header_row) THEN <<>>
        ELSE LET category_name == Strip(header_row[i])
             IN  IF /\ category_name # <<>>
                    /\ Upper(category_name) # AMOUNT_INVESTED
                    /\ i + 1 <= Len(header_row)
                    /\ Upper(Strip(header_row[i + 1])) = AMOUNT_INVESTED
                 THEN <<inv_frame(df, i)>> \o FramesFrom(df, i + 1)
                 ELSE FramesFrom(df, i + 1)

inv_frames(df) == FramesFrom(df, 1)

\* pd.concat(frames, ignore_index=True)
RECURSIVE Concat(_)
Concat(fs) == IF fs = <<>> THEN <<>> ELSE Head(fs) \o Concat(Tail(fs))

inv_strip(df) ==
    [i \in 1..Len(df) |->
        [df[i] EXCEPT !.Category = Strip(@), !.Month = Strip(@)]]

inv_to_numeric(df) ==
    [i \in 1..Len(df) |-> [df[i] EXCEPT !.Amount = to_numeric(RemoveCommas(@))]]

\* a cleaning that keeps the rows whose Amount does not parse, as 0
inv_clean_zero_fill(df) ==
    inv_strip(fillna_Amount(inv_to_numeric(
        SelectSeq(df, LAMBDA rec : Strip(rec.Month) # <<>>))))

\* the Data Cleaning block
inv_clean(df) ==
    inv_strip(fillna_Amount(dropna_Amount(inv_to_numeric(
        SelectSeq(df, LAMBDA rec : Strip(rec.Month) # <<>>)))))

\* a parser whose loop lets the IndexError of a last, unpaired label escape
process_investments_data_raising(df) ==
    IF Empty(df) \/ NCols(df) < 2 THEN Returned(<<>>, INV_EMPTY)
    ELSE LET last == Strip(df[1][NCols(df)])
         IN  IF last # <<>> /\ Upper(last) # AMOUNT_INVESTED THEN Raised
             ELSE IF inv_frames(df) # <<>>
             THEN Returned(inv_clean(Concat(inv_frames(df))), None)
             ELSE Returned(<<>>, INV_NO_DATA)

process_investments_data(df) ==
    IF Empty(df) \/ NCols(df) < 2 THEN Returned(<<>>, INV_EMPTY)
    ELSE IF inv_frames(df) # <<>> THEN Returned(inv_clean(Concat(inv_frames(df))), None)
    ELSE Returned(<<>>, INV_NO_DATA)

(***************************************************************************)
(* load_data_from_google_sheets                                            *)
(*                                                                         *)
(* What the fetch meets: credentials is "env" (GCP_SA_CREDENTIALS_BASE64   *)
(* set and decodable), "env_undecodable", "file" (the local key file) or   *)
(* "missing"; spreadsheet is "ok" or "error" (authorizing or opening it    *)
(* raises); a worksheet is [kind, grid] with kind "missing"                *)
(* (WorksheetNotFound), "error" (get_all_values raises) or "grid".         *)
(* A line print()ed is a tuple of its parts.                               *)
(***************************************************************************)
ICIC_SHEET == "ICIC salary"
CANARA_SHEET == "CANARA"
INVESTMENTS_SHEET == "GOLD & LIC & DEPOSITS"

CREDS_UNDECODABLE == "Error decoding credentials from environment variable"
CREDS_MISSING == "Error: 'GCP_SA_CREDENTIALS_BASE64' environment variable not found and local file is missing."
SHEET_ERROR == "Error authenticating or retrieving Google Sheet"

\* one of the three try blocks: fetch the worksheet, parse it, print
TrySheet(name, ws, out, warning) ==
    IF ws.kind = "missing"
    THEN [df |-> <<>>, printed |-> << <<"Warning: worksheet not found. Skipping", name>> >>]
    ELSE IF ws.kind = "error" \/ out.raised
    THEN [df |-> <<>>, printed |-> << <<"Error loading sheet", name>> >>]
    ELSE [df |-> out.df,
          printed |-> IF out.error # None THEN << <<warning, out.error>> >> ELSE <<>>]

load_icic(ws) ==
    TrySheet(ICIC_SHEET, ws, process_icic_salary_data(ws.grid),
             "ICIC Data Processing Warning")

load_canara(ws) ==
    TrySheet(CANARA_SHEET, ws, process_canara_data(ws.grid),
             "CANARA Data Processing Warning")

load_investments(ws) ==
    TrySheet(INVESTMENTS_SHEET, ws, process_investments_data(ws.grid),
             "Investments Data Processing Warning")

Loaded(icic, canara, investments, err, lines) ==
    [df_icic |-> icic, df_canara |-> canara, df_investments |-> investments,
     error_message |-> err, printed |-> lines]

\* a loader that gives up on the other sheets once the ledger is not loaded
load_sheets_until_failure(wss) ==
    LET icic == load_icic(wss[ICIC_SHEET])
    IN  IF icic.printed # <<>>
        THEN Loaded(icic.df, <<>>, <<>>, None, icic.printed)
        ELSE Loaded(icic.df, load_canara(wss[CANARA_SHEET]).df,
                    load_investments(wss[INVESTMENTS_SHEET]).df, None,
                    load_canara(wss[CANARA_SHEET]).printed
                        \o load_investments(wss[INVESTMENTS_SHEET]).printed)

\* a loader whose try blocks catch WorksheetNotFound only: an error raised by
\* a grid fetch or inside a parser reaches the outer except and ends the load
load_sheets_uncaught(wss) ==
    LET icic == load_icic(wss[ICIC_SHEET])
        canara == load_canara(wss[CANARA_SHEET])
        investments == load_investments(wss[INVESTMENTS_SHEET])
        all == icic.printed \o canara.printed \o investments.printed
    IN  IF \E i \in 1..Len(all) : all[i][1] = "Error loading sheet"
        THEN Loaded(<<>>, <<>>, <<>>, SHEET_ERROR, <<>>)
        ELSE Loaded(icic.df, canara.df, investments.df, None, all)

\* the three try blocks, one after the other, with the spreadsheet open
load_sheets(wss) ==
    LET icic == load_icic(wss[ICIC_SHEET])
        canara == load_canara(wss[CANARA_SHEET])
        investments == load_investments(wss[INVESTMENTS_SHEET])
    IN  Loaded(icic.df, canara.df, investments.df, None,
               icic.printed \o canara.printed \o investments.printed)

load_data_from_google_sheets(creds, sheet, wss) ==
    IF creds = "env_undecodable"
    THEN Loaded(<<>>, <<>>, <<>>, CREDS_UNDECODABLE, << <<CREDS_UNDECODABLE>> >>)
    ELSE IF creds = "missing"
    THEN Loaded(<<>>, <<>>, <<>>, CREDS_MISSING, << <<CREDS_MISSING>> >>)
    ELSE LET using == IF creds = "env"
                      THEN << <<"Using credentials from environment variable.">> >>
                      ELSE << <<"Using local service account file.">> >>
         IN  IF sheet = "error"
             THEN Loaded(<<>>, <<>>, <<>>, SHEET_ERROR, using)
             ELSE [load_sheets(wss) EXCEPT !.printed = using \o @]

(***************************************************************************)
(* fetch_and_store_data                                                    *)
(*                                                                         *)
(* A store holds null or the table as df.to_json(orient="split") writes    *)
(* it: the column names and the rows as lists in the order of the columns. *)
(***************************************************************************)
null == <<>>

to_json(df, columns) ==
    <<columns, [i \in 1..Len(df) |-> [j \in 1..Len(columns) |-> df[i][columns[j]]]]>>

ICIC_COLUMNS == <<"Category", "Amount", "Month">>
CANARA_COLUMNS == <<"Month", "Description", "Category", "Debit", "Credit">>
INVESTMENTS_COLUMNS == <<"Category", "Month", "Amount">>

\* a store that is left as it is when the new table is empty
json_or_no_update(df, columns) == IF df # <<>> THEN to_json(df, columns) ELSE "no_update"

\* df.to_json(...) if not df.empty else None
json_or_None(df, columns) == IF df # <<>> THEN to_json(df, columns) ELSE null

SUCCESS == "Data loaded successfully!"

Div(children, className) == [children |-> children, className |-> className]

\* dash.no_update: the output keeps the value it has
no_update == "no_update"

Output(value, current) == IF value = no_update THEN current ELSE value

\* a return that keeps, table by table, the stored table when the new one is
\* empty
fetch_and_store_data_return_keeping(got) ==
    LET kept(df, columns) == IF df # <<>> THEN to_json(df, columns) ELSE no_update
    IN  IF got.error_message # None
        THEN [icic |-> no_update, canara |-> no_update, investments |-> no_update,
              error |-> got.error_message,
              status |-> Div(got.error_message, "data-load-alert error-message")]
        ELSE [icic |-> kept(got.df_icic, ICIC_COLUMNS),
              canara |-> kept(got.df_canara, CANARA_COLUMNS),
              investments |-> kept(got.df_investments, INVESTMENTS_COLUMNS),
              error |-> None,
              status |-> Div(SUCCESS, "data-load-alert success-message")]

\* a return that empties the three stores when the load returned an error
fetch_and_store_data_return_clearing(got) ==
    IF got.error_message # None
    THEN [icic |-> null, canara |-> null, investments |-> null,
          error |-> got.error_message,
          status |-> Div(got.error_message, "data-load-alert error-message")]
    ELSE [icic |-> json_or_None(got.df_icic, ICIC_COLUMNS),
          canara |-> json_or_None(got.df_canara, CANARA_COLUMNS),
          investments |-> json_or_None(got.df_investments, INVESTMENTS_COLUMNS),
          error |-> None,
          status |-> Div(SUCCESS, "data-load-alert success-message")]

\* what the callback returns for what the load returned: its five outputs
fetch_and_store_data_return(got) ==
    IF got.error_message # None
    THEN [icic |-> no_update, canara |-> no_update, investments |-> no_update,
          error |-> got.error_message,
          status |-> Div(got.error_message, "data-load-alert error-message")]
    ELSE [icic |-> json_or_None(got.df_icic, ICIC_COLUMNS),
          canara |-> json_or_None(got.df_canara, CANARA_COLUMNS),
          investments |-> json_or_None(got.df_investments, INVESTMENTS_COLUMNS),
          error |-> None,
          status |-> Div(SUCCESS, "data-load-alert success-message")]

(***************************************************************************)
(* The deduplicator on its own: every list of at most MaxList labels.      *)
(***************************************************************************)
DedupLabels ==
    { <<"A">>, <<" ", "A", " ">>, <<"A", "_", "1">>, <<"B">>, <<>>, <<" ">> }

RECURSIVE SeqsOf(_, _)
SeqsOf(S, n) ==
    IF n = 0 THEN { <<>> } ELSE { Append(s, x) : s \in SeqsOf(S, n - 1), x \in S }

SeqsUpTo(S, n) == UNION { SeqsOf(S, k) : k \in 0..n }

InitDedup ==
    /\ NoApp
    /\ pc = "start"
    /\ column_list \in SeqsUpTo(DedupLabels, MaxList)
    /\ unique_list = <<>>
    /\ df_raw = Unused
    /\ pairs = Unused
    /\ frames = Unused
    /\ df_result = Unused
    /\ error_message = Unused
    /\ raised = Unused

CallDedup ==
    /\ pc = "start"
    /\ unique_list' = make_unique_column_names(column_list)
    /\ pc' = "done"
    /\ UNCHANGED <<column_list, df_raw, pairs, frames, df_result, error_message, raised, appvars, reqvars, kpivars>>

NextDedup == CallDedup

SpecDedup == InitDedup /\ [][NextDedup]_vars

Distinct(list) == \A i, j \in 1..Len(list) : i # j => list[i] # list[j]

Trimmed(list) == [i \in 1..Len(list) |-> Strip(list[i])]

\* C1: the output of make_unique_column_names has the length of the input,
\* its values are pairwise distinct, and when the trimmed input labels are
\* already pairwise distinct it is the list of trimmed labels, in order.
C1_DedupContract ==
    pc = "done" =>
        /\ Len(unique_list) = Len(column_list)
        /\ Distinct(unique_list)
        /\ (Distinct(Trimmed(column_list)) => unique_list = Trimmed(column_list))

C1_Witness ==
    /\ pc = "done"
    /\ Len(column_list) = 3
    /\ ~Distinct(Trimmed(column_list))
    /\ unique_list[3] # Strip(column_list[3])

(***************************************************************************)
(* The ledger parser on its own.  A grid is a header row of at most        *)
(* MaxCols labels over at most MaxRows further rows; each further row is   *)
(* one of three patterns: two of data cells, one that repeats header       *)
(* labels.  A first row without the marker puts the header row lower.      *)
(***************************************************************************)
EC == <<"Expenses", " ", "Category">>
AJ == <<"Amount", " ", "Spent", " ", "in", " ", "Jan">>
AF == <<"AMOUNT", " ", "SPENT", " ", "IN", " ", "Feb", " ", " ", "2", "4", " ">>
NOTES == <<"Notes">>

IcicLabels == { EC, AJ, AF }

IcicCells ==
    << <<"Food">>, <<"1", ",", "2", "3", "4", ".", "5", "0">>, <<"-", "5">>, <<"abc">>,
       <<" ", "Rent", " ">>, <<"0">>, <<>>, <<" ">> >>

RowPatterns == 0..2

CellAt(p, j) ==
    IF p = 2 THEN (IF j % 2 = 1 THEN EC ELSE AJ)
    ELSE IcicCells[((4 * p + j - 1) % Len(IcicCells)) + 1]

Body(n, ps) == [r \in 1..Len(ps) |-> [j \in 1..n |-> CellAt(ps[r], j)]]

IcicGrids(cols, rows) ==
    { <<>> } \cup
    { <<hdr>> \o Body(Len(hdr), ps) :
        hdr \in SeqsUpTo(IcicLabels, cols), ps \in SeqsUpTo(RowPatterns, rows) }

InitIcic ==
    /\ NoApp
    /\ pc = "start"
    /\ df_raw \in IcicGrids(MaxCols, MaxRows)
    /\ column_list = Unused
    /\ unique_list = Unused
    /\ pairs = <<>>
    /\ frames = Unused
    /\ df_result = <<>>
    /\ error_message = None
    /\ raised = FALSE

\* the pairs the call computes before it builds the frames
PairsOfCall(df) ==
    IF Empty(df) \/ category_header_row(df) = 0 THEN <<>>
    ELSE icic_pairs(make_unique_column_names(df[category_header_row(df)]))

CallIcic ==
    /\ pc = "start"
    /\ LET out == process_icic_salary_data(df_raw)
       IN  /\ df_result' = out.df
           /\ error_message' = out.error
           /\ raised' = out.raised
    /\ pairs' = PairsOfCall(df_raw)
    /\ pc' = "done"
    /\ UNCHANGED <<column_list, unique_list, df_raw, frames, appvars, reqvars, kpivars>>

NextIcic == CallIcic

SpecIcic == InitIcic /\ [][NextIcic]_vars

\* What the claims speak of, read off the raw grid.
HeaderRow == category_header_row(df_raw)
HeaderFound == ~Empty(df_raw) /\ HeaderRow # 0
RawHeader == df_raw[HeaderRow]
DataRows == SubSeq(df_raw, HeaderRow + 1, Len(df_raw))

IsAmountLabel(label) == Contains(Upper(label), AMOUNT_SPENT_IN)
IsCategoryLabel(label) == Contains(Upper(label), EXPENSES_CATEGORY)

CategoriesLeftOf(hdr, a) == { c \in 1..(a - 1) : IsCategoryLabel(hdr[c]) }

\* <<c, a>>: amount column a with its nearest category column c to the left
ExpectedPairs(hdr) ==
    { <<c, a>> \in (1..Len(hdr)) \X (1..Len(hdr)) :
        /\ c < a
        /\ IsAmountLabel(hdr[a])
        /\ IsCategoryLabel(hdr[c])
        /\ \A d \in (c + 1)..(a - 1) : ~IsCategoryLabel(hdr[d]) }

\* the columns the pairs of names stand for, in the order of the pairs
PairColumns(hdr, prs) ==
    LET cols == make_unique_column_names(hdr)
    IN  [k \in 1..Len(prs) |-> <<ColOf(cols, prs[k].cat_col), ColOf(cols, prs[k].amt_col)>>]

\* C2: the pairs are exactly one pair per amount column that has a category
\* column at a smaller index, each with the nearest such category column;
\* an amount column with no category column to its left is in no pair.
C2_NearestPrecedingCategory ==
    (pc = "done" /\ HeaderFound) =>
        LET hdr == RawHeader
            pcs == PairColumns(hdr, pairs)
            expected == ExpectedPairs(hdr)
        IN  /\ { pcs[k] : k \in 1..Len(pcs) } = expected
            /\ Len(pcs) = Cardinality(expected)
            /\ \A k \in 1..Len(pcs) : CategoriesLeftOf(hdr, pcs[k][2]) # {}

C2_Witness ==
    /\ pc = "done" /\ HeaderFound
    /\ Len(pairs) >= 1
    /\ LET hdr == RawHeader
           pcs == PairColumns(hdr, pairs)
       IN  /\ \E a \in 1..Len(hdr) :
                 IsAmountLabel(hdr[a]) /\ CategoriesLeftOf(hdr, a) = {}
           /\ \E k \in 1..Len(pcs) :
                 Cardinality(CategoriesLeftOf(hdr, pcs[k][2])) = 2

\* the expected pairs from left to right by amount column
RECURSIVE ByAmountColumn(_)
ByAmountColumn(set) ==
    IF set = {} THEN <<>>
    ELSE LET first == CHOOSE p \in set : \A q \in set : p[2] <= q[2]
         IN  <<first>> \o ByAmountColumn(set \ {first})

\* whether the data row yields a record for the pair <<c, a>>
Kept(row, p) ==
    /\ Strip(row[p[1]]) # <<>>
    /\ to_numeric(RemoveCommas(row[p[2]])) # NaN

\* the Month of the records of amount column a: by the name the column has
\* in the data frame, and by the raw cell of the header row
MonthOfColumnName(hdr, a) == clean_month_label(make_unique_column_names(hdr)[a])
MonthOfRawLabel(hdr, a) == clean_month_label(hdr[a])

\* every (pair, data row) combination, pair-major, then the kept ones as records
ExpectedRecords(hdr, rows, MonthOf(_, _)) ==
    LET ps == ByAmountColumn(ExpectedPairs(hdr))
        R == Len(rows)
        all == [n \in 1..(Len(ps) * R) |-> <<((n - 1) \div R) + 1, ((n - 1) % R) + 1>>]
        kept == SelectSeq(all, LAMBDA t : Kept(rows[t[2]], ps[t[1]]))
    IN  [i \in 1..Len(kept) |->
            LET p == ps[kept[i][1]]
                row == rows[kept[i][2]]
            IN  [Category |-> Strip(row[p[1]]),
                 Amount |-> to_numeric(RemoveCommas(row[p[2]]))[1],
                 Month |-> MonthOf(hdr, p[2])]]

Parsed == pc = "done" /\ HeaderFound /\ pairs # <<>>

\* the (pair, data row) combinations, and those that yield no record
Combinations(hdr, rows) == ExpectedPairs(hdr) \X (1..Len(rows))
Dropped(hdr, rows) == { t \in Combinations(hdr, rows) : ~Kept(rows[t[2]], t[1]) }

\* C3: every record of the ledger table has a Category that is non-empty and
\* trimmed and a parsed Amount; a (pair, data row) combination yields a record
\* iff its trimmed category cell is non-empty and its amount cell, commas
\* removed, parses, so the table is shorter than the number of combinations
\* by exactly the number of those that are dropped; none is kept with a zero.
C3_RowsDroppedNotZeroFilled ==
    Parsed =>
        LET hdr == RawHeader
            rows == DataRows
            all == Combinations(hdr, rows)
            dropped == Dropped(hdr, rows)
            kept == all \ dropped
            value(t) == <<Strip(rows[t[2]][t[1][1]]),
                          to_numeric(RemoveCommas(rows[t[2]][t[1][2]]))>>
        IN  /\ \A i \in 1..Len(df_result) :
                  /\ Strip(df_result[i].Category) # <<>>
                  /\ Strip(df_result[i].Category) = df_result[i].Category
                  /\ df_result[i].Amount \in Int
                  /\ \E t \in kept :
                        value(t) = <<df_result[i].Category, Num(df_result[i].Amount)>>
            /\ \A t \in kept : \E i \in 1..Len(df_result) :
                  value(t) = <<df_result[i].Category, Num(df_result[i].Amount)>>
            /\ Len(df_result) = Cardinality(all) - Cardinality(dropped)

C3_Witness ==
    /\ Parsed
    /\ Len(df_result) >= 2
    /\ LET hdr == RawHeader
           rows == DataRows
       IN  /\ \E t \in Dropped(hdr, rows) : Strip(rows[t[2]][t[1][1]]) = <<>>
           /\ \E t \in Dropped(hdr, rows) :
                 /\ Strip(rows[t[2]][t[1][1]]) # <<>>
                 /\ to_numeric(RemoveCommas(rows[t[2]][t[1][2]])) = NaN
    /\ \E i \in 1..Len(df_result) : df_result[i].Amount = 0

\* C4 (as claimed): the Month of every record is derived from the raw cell of
\* the header row over its amount column, so two amount columns with the same
\* raw label give the same Month.
C4_MonthFromOriginalLabel ==
    Parsed =>
        LET expected == ExpectedRecords(RawHeader, DataRows, MonthOfRawLabel)
        IN  /\ Len(df_result) = Len(expected)
            /\ \A i \in 1..Len(df_result) : df_result[i].Month = expected[i].Month

\* C6: the records are ordered by pair, left to right by amount column, and
\* within a pair in the order of the data rows; the dropped rows leave the
\* order of the others as it was.
C6_PairMajorRowOrder ==
    Parsed => df_result = ExpectedRecords(RawHeader, DataRows, MonthOfColumnName)

C6_Witness ==
    /\ Parsed
    /\ Len(pairs) = 2
    /\ Len(DataRows) = 2
    /\ Len(df_result) = 3
    /\ df_result[1].Month # df_result[3].Month
    /\ df_result[1].Category # df_result[2].Category

(***************************************************************************)
(* The statement parser on its own.  A grid has 0 to 5 + MaxExtra columns  *)
(* and 0 to 4 + MaxRows rows, each row one of three patterns, cut to the   *)
(* width of the grid.                                                      *)
(***************************************************************************)
CanaraRows ==
    << << <<" ", "Jan", " ">>, <<"Salary">>, <<" ", "Income">>, <<"0", ".", "0", "0">>, <<>>,
          <<"9">>, <<"1">> >>,
       << <<"Jan">>, <<" ", "Rent", " ">>, <<"Rent">>, <<"1", ",", "2", "3", "4", ".", "5", "0">>,
          <<"0">>, <<"7">>, <<"2">> >>,
       << <<"Feb">>, <<>>, <<"Food">>, <<"abc">>, <<"1", "0", "0">>, <<>>, <<"3">> >> >>

CanaraPatterns == 1..Len(CanaraRows)

CanaraGrid(n, ps) == [r \in 1..Len(ps) |-> SubSeq(CanaraRows[ps[r]], 1, n)]

CanaraGrids(extra, rows) ==
    { CanaraGrid(n, ps) :
        n \in 0..(CANARA_COLS + extra),
        ps \in SeqsUpTo(CanaraPatterns, CANARA_SKIP + rows) }

InitCanara ==
    /\ NoApp
    /\ pc = "start"
    /\ df_raw \in CanaraGrids(MaxExtra, MaxRows)
    /\ column_list = Unused
    /\ unique_list = Unused
    /\ pairs = Unused
    /\ frames = Unused
    /\ df_result = <<>>
    /\ error_message = None
    /\ raised = FALSE

CallCanara ==
    /\ pc = "start"
    /\ LET out == process_canara_data(df_raw)
       IN  /\ df_result' = out.df
           /\ error_message' = out.error
           /\ raised' = out.raised
    /\ pc' = "done"
    /\ UNCHANGED <<column_list, unique_list, df_raw, pairs, frames, appvars, reqvars, kpivars>>

NextCanara == CallCanara

SpecCanara == InitCanara /\ [][NextCanara]_vars

\* a Debit or Credit cell as the statement parser reads it
CellValue(cell) ==
    IF to_numeric(RemoveCommas(cell)) = NaN THEN 0 ELSE to_numeric(RemoveCommas(cell))[1]

NonZeroRow(row) == CellValue(row[4]) # 0 \/ CellValue(row[5]) # 0

\* C7 (as claimed): zero rows give the 'empty' error, every grid of 1 to 4
\* rows gives the 'insufficient rows' error, both with an empty table; a grid
\* of 5 or more rows and at least 5 columns gives no error, and 4 preamble
\* rows and one non-zero data row give exactly one record.
C7_RowThresholds ==
    pc = "done" =>
        /\ Len(df_raw) = 0 =>
              ~raised /\ df_result = <<>> /\ error_message = CANARA_EMPTY
        /\ Len(df_raw) \in 1..4 =>
              ~raised /\ df_result = <<>> /\ error_message = CANARA_INSUFFICIENT
        /\ (Len(df_raw) >= 5 /\ NCols(df_raw) >= 5) =>
              ~raised /\ error_message = None
        /\ (Len(df_raw) = 5 /\ NCols(df_raw) >= 5 /\ NonZeroRow(df_raw[5])) =>
              Len(df_result) = 1

\* C7 (amended): a grid of zero rows, or of rows without columns, gives the
\* 'empty' error; a grid of 1 to 4 rows with at least one column gives the
\* 'insufficient rows' error; both with an empty table.  A grid of 5 or more
\* rows and at least 5 columns gives no error, and 4 preamble rows and one
\* non-zero data row give exactly one record.
C7_RowThresholdsAmended ==
    pc = "done" =>
        /\ (Len(df_raw) = 0 \/ NCols(df_raw) = 0) =>
              ~raised /\ df_result = <<>> /\ error_message = CANARA_EMPTY
        /\ (Len(df_raw) \in 1..4 /\ NCols(df_raw) >= 1) =>
              ~raised /\ df_result = <<>> /\ error_message = CANARA_INSUFFICIENT
        /\ (Len(df_raw) >= 5 /\ NCols(df_raw) >= 5) =>
              ~raised /\ error_message = None
        /\ (Len(df_raw) = 5 /\ NCols(df_raw) >= 5 /\ NonZeroRow(df_raw[5])) =>
              Len(df_result) = 1

C7_Witness ==
    /\ pc = "done"
    /\ Len(df_raw) = 5 /\ NCols(df_raw) = 6
    /\ NonZeroRow(df_raw[5]) /\ NonZeroRow(df_raw[2])
    /\ error_message = None
    /\ Len(df_result) = 1

C7_WitnessInsufficient ==
    /\ pc = "done"
    /\ Len(df_raw) = 4 /\ NCols(df_raw) = 5
    /\ error_message = CANARA_INSUFFICIENT

\* the rows of the grid from the fifth on that have a non-zero amount
StatementRows(df) == SelectSeq(SubSeq(df, 5, Len(df)), NonZeroRow)

\* C8: every record of the statement table has a non-zero Debit or Credit;
\* the records are, in order, the grid rows of index >= 4 whose Debit or
\* Credit, commas removed and 0 when unparsable, is non-zero; the first four
\* rows and the columns after the fifth have no part in them.
C8_NonZeroRowsFromFifth ==
    (pc = "done" /\ ~raised /\ error_message = None) =>
        LET rows == StatementRows(df_raw)
        IN  /\ \A i \in 1..Len(df_result) :
                  df_result[i].Debit # 0 \/ df_result[i].Credit # 0
            /\ Len(df_result) = Len(rows)
            /\ \A i \in 1..Len(df_result) :
                  df_result[i] = [Month |-> Strip(rows[i][1]),
                                  Description |-> rows[i][2],
                                  Category |-> Strip(rows[i][3]),
                                  Debit |-> CellValue(rows[i][4]),
                                  Credit |-> CellValue(rows[i][5])]

C8_Witness ==
    /\ pc = "done" /\ ~raised /\ error_message = None
    /\ Len(df_raw) = 6 /\ NCols(df_raw) = 6
    /\ NonZeroRow(df_raw[1])
    /\ ~NonZeroRow(df_raw[5])
    /\ to_numeric(df_raw[6][4]) = NaN
    /\ Len(df_result) = 1
    /\ df_result[1].Debit = 0 /\ df_result[1].Credit = 10000

(***************************************************************************)
(* The installment parser on its own.  A grid is a label row of at most    *)
(* MaxCols labels over at most MaxRows rows, each one of three patterns.   *)
(***************************************************************************)
LIC == <<"LIC">>
KUMARAN == <<" ", "Kumaran", " ">>
AI == <<" ", "Amount", " ", "Invested">>
BLANK == <<" ">>

InvLabels == { LIC, KUMARAN, AI, BLANK }

InvCells ==
    << <<" ", "Jan", "-", "2", "4", " ">>, <<"5", ",", "0", "0", "0">>, <<>>, <<"abc">>,
       <<"Feb", "-", "2", "4">>, <<"2", "0", "0", "0">>, <<" ">>, <<"0">> >>

InvPatterns == 0..2

InvCellAt(p, j) == InvCells[((3 * p + j - 1) % Len(InvCells)) + 1]

InvGrids(cols, rows) ==
    { <<>> } \cup
    { <<hdr>> \o [r \in 1..Len(ps) |-> [j \in 1..Len(hdr) |-> InvCellAt(ps[r], j)]] :
        hdr \in SeqsUpTo(InvLabels, cols), ps \in SeqsUpTo(InvPatterns, rows) }

InitInv ==
    /\ NoApp
    /\ pc = "start"
    /\ df_raw \in InvGrids(MaxCols, MaxRows)
    /\ column_list = Unused
    /\ unique_list = Unused
    /\ pairs = Unused
    /\ frames = <<>>
    /\ df_result = <<>>
    /\ error_message = None
    /\ raised = FALSE

CallInv ==
    /\ pc = "start"
    /\ LET out == process_investments_data(df_raw)
       IN  /\ df_result' = out.df
           /\ error_message' = out.error
           /\ raised' = out.raised
    /\ frames' = IF Empty(df_raw) \/ NCols(df_raw) < 2 THEN <<>> ELSE inv_frames(df_raw)
    /\ pc' = "done"
    /\ UNCHANGED <<column_list, unique_list, df_raw, pairs, appvars, reqvars, kpivars>>

NextInv == CallInv

SpecInv == InitInv /\ [][NextInv]_vars

InvAccepted == pc = "done" /\ ~Empty(df_raw) /\ NCols(df_raw) >= 2

IsAmountInvested(label) == Upper(Strip(label)) = AMOUNT_INVESTED

\* the columns i that are paired with column i+1
InvPairColumns(labels) ==
    { i \in 1..(Len(labels) - 1) :
        /\ Strip(labels[i]) # <<>>
        /\ ~IsAmountInvested(labels[i])
        /\ IsAmountInvested(labels[i + 1]) }

\* C9: column i is paired with column i+1 exactly when label i, trimmed, is
\* non-empty and not 'AMOUNT INVESTED' and label i+1 is 'AMOUNT INVESTED'; a
\* last column has no pair; the pairs, left to right, each give one record
\* per row below row 0, with Category the label of column i, Month the cell
\* of column i and Amount the cell of column i+1.
C9_RecordConstruction ==
    InvAccepted =>
        LET labels == df_raw[1]
            cols == InvPairColumns(labels)
            below == Len(df_raw) - 1
        IN  /\ Len(frames) = Cardinality(cols)
            /\ Len(Concat(frames)) = Cardinality(cols) * below
            /\ \A k \in 1..Len(frames) :
                  \E i \in cols :
                     /\ Cardinality({ j \in cols : j < i }) = k - 1
                     /\ Len(frames[k]) = below
                     /\ \A r \in 1..below :
                           /\ frames[k][r].Category = Strip(labels[i])
                           /\ frames[k][r].Month = df_raw[r + 1][i]
                           /\ frames[k][r].Amount = df_raw[r + 1][i + 1]

C9_Witness ==
    /\ InvAccepted
    /\ Len(df_raw) = 3 /\ NCols(df_raw) = 4
    /\ Len(frames) = 2
    /\ Len(Concat(frames)) = 4
    /\ frames[1][1].Category # frames[2][1].Category
    /\ frames[1][1].Month # frames[1][1].Amount

C9_WitnessLastColumn ==
    /\ InvAccepted
    /\ Len(frames) = 1
    /\ Len(df_raw) >= 2
    /\ LET labels == df_raw[1]
       IN  Strip(labels[Len(labels)]) # <<>> /\ ~IsAmountInvested(labels[Len(labels)])

InvKept(rec) ==
    Strip(rec.Month) # <<>> /\ to_numeric(RemoveCommas(rec.Amount)) # NaN

\* C10: every record of the installment table has a non-empty, trimmed Month,
\* a trimmed Category and a parsed Amount; the table is, in order, the
\* constructed records whose month cell is not blank and whose amount cell,
\* commas removed, parses; the others are dropped, none is kept with a zero.
C10_BlankMonthAndBadAmountDropped ==
    (InvAccepted /\ frames # <<>>) =>
        LET built == SelectSeq(Concat(frames), InvKept)
        IN  /\ Len(df_result) = Len(built)
            /\ \A i \in 1..Len(df_result) :
                  /\ df_result[i].Month # <<>>
                  /\ df_result[i].Month = Strip(built[i].Month)
                  /\ df_result[i].Category = Strip(built[i].Category)
                  /\ df_result[i].Amount \in Int
                  /\ Num(df_result[i].Amount) = to_numeric(RemoveCommas(built[i].Amount))

C10_Witness ==
    /\ InvAccepted
    /\ Len(Concat(frames)) = 4
    /\ Len(df_result) >= 1
    /\ \E i \in 1..4 : Strip(Concat(frames)[i].Month) = <<>>
    /\ \E i \in 1..4 :
          /\ Strip(Concat(frames)[i].Month) # <<>>
          /\ to_numeric(RemoveCommas(Concat(frames)[i].Amount)) = NaN
    /\ \E i \in 1..4 : Concat(frames)[i].Month # Strip(Concat(frames)[i].Month)

\* C11: the installment parser returns, without raising, an empty table and
\* an error message when the grid has no rows or fewer than 2 columns (the
\* "empty or insufficient columns" message) and when row 0 holds no pair of
\* a category label followed by 'AMOUNT INVESTED' (the "no valid investment
\* data" message).
C11_InstallmentFailures ==
    pc = "done" =>
        /\ (Len(df_raw) = 0 \/ NCols(df_raw) < 2) =>
              (~raised /\ df_result = <<>> /\ error_message = INV_EMPTY)
        /\ (InvAccepted /\ InvPairColumns(df_raw[1]) = {}) =>
              (~raised /\ df_result = <<>> /\ error_message = INV_NO_DATA)

\* no pair in row 0, whose last label is a category with no column after it
C11_Witness ==
    /\ InvAccepted
    /\ Len(df_raw) >= 2
    /\ InvPairColumns(df_raw[1]) = {}
    /\ LET labels == df_raw[1]
       IN  Strip(labels[Len(labels)]) # <<>> /\ ~IsAmountInvested(labels[Len(labels)])
    /\ error_message = INV_NO_DATA /\ df_result = <<>> /\ ~raised

\* a grid of one column over at least one row
C11_WitnessOneColumn ==
    /\ pc = "done"
    /\ Len(df_raw) >= 2 /\ NCols(df_raw) = 1
    /\ error_message = INV_EMPTY /\ df_result = <<>> /\ ~raised

(***************************************************************************)
(* The dashboard: fetch after fetch.  fetch_and_store_data runs on the     *)
(* interval and on the refresh button; its two arguments only choose a     *)
(* loading message that every return overwrites, so one action stands for  *)
(* both triggers.  Each fetch meets credentials, a spreadsheet and three   *)
(* worksheets drawn from the cases below.                                  *)
(***************************************************************************)
Grid(g) == [kind |-> "grid", grid |-> g]
Missing == [kind |-> "missing", grid |-> <<>>]
FetchError == [kind |-> "error", grid |-> <<>>]

FOOD == <<"Food">>
ONE_HUNDRED == <<"1", "0", "0">>

IcicGood == << <<EC, AJ>>, <<FOOD, ONE_HUNDRED>> >>
IcicGood2 == << <<EC, AF>>, <<FOOD, ONE_HUNDRED>> >>
IcicNoHeader == << <<NOTES, NOTES>>, <<FOOD, ONE_HUNDRED>> >>
IcicNoPairs == << <<AJ, EC>>, <<ONE_HUNDRED, FOOD>> >>

CanaraGood == CanaraGrid(5, <<1, 1, 1, 1, 2>>)
CanaraGood2 == CanaraGrid(5, <<1, 1, 1, 1, 3>>)
CanaraShort == CanaraGrid(5, <<1, 1, 1, 2>>)
CanaraNarrow == CanaraGrid(4, <<1, 1, 1, 1, 2>>)

InvGood == << <<LIC, AI>>, <<InvCells[1], InvCells[2]>> >>
InvGood2 == << <<KUMARAN, AI>>, <<InvCells[5], InvCells[6]>> >>
InvNoData == << <<LIC, LIC>>, <<InvCells[1], InvCells[2]>> >>

IcicSheets ==
    { Missing, FetchError, Grid(IcicGood), Grid(IcicGood2), Grid(IcicNoHeader),
      Grid(IcicNoPairs) }
CanaraSheets ==
    { Missing, FetchError, Grid(CanaraGood), Grid(CanaraGood2), Grid(CanaraShort),
      Grid(CanaraNarrow) }
InvestmentsSheets ==
    { Missing, FetchError, Grid(InvGood), Grid(InvGood2), Grid(InvNoData) }

Worksheets(icic, canara, investments) ==
    [name \in {ICIC_SHEET, CANARA_SHEET, INVESTMENTS_SHEET} |->
        IF name = ICIC_SHEET THEN icic
        ELSE IF name = CANARA_SHEET THEN canara ELSE investments]

Init ==
    /\ pc = Unused /\ column_list = Unused /\ unique_list = Unused
    /\ df_raw = Unused /\ pairs = Unused /\ frames = Unused
    /\ df_result = Unused /\ error_message = Unused /\ raised = Unused
    /\ credentials = "env"
    /\ spreadsheet = "ok"
    /\ worksheets = Worksheets(Missing, Missing, FetchError)
    /\ stored_icic_data = null
    /\ stored_canara_data = null
    /\ stored_investments_data = null
    /\ loading_error_message = None
    /\ data_load_status = Div(None, "")
    /\ printed = <<>>
    /\ NoReq
    /\ NoKpi

\* what a fetch can meet, and what load_data_from_google_sheets returns for
\* each, computed once.  A fetch that does not get to open the spreadsheet
\* never asks for a worksheet: Unopened stands for whatever it holds.
Unopened == Worksheets(Missing, Missing, Missing)

Environments ==
    { <<creds, "ok", Worksheets(icic, canara, investments)>> :
        creds \in {"env", "file"},
        icic \in IcicSheets, canara \in CanaraSheets, investments \in InvestmentsSheets }
    \cup { <<creds, "error", Unopened>> : creds \in {"env", "file"} }
    \cup { <<creds, sheet, Unopened>> :
             creds \in {"env_undecodable", "missing"}, sheet \in {"ok", "error"} }

\* the five outputs of the callback, written together
WriteOutputs(out) ==
    /\ stored_icic_data' = Output(out.icic, stored_icic_data)
    /\ stored_canara_data' = Output(out.canara, stored_canara_data)
    /\ stored_investments_data' = Output(out.investments, stored_investments_data)
    /\ loading_error_message' = out.error
    /\ data_load_status' = out.status

LoadedFrom == [env \in Environments |-> load_data_from_google_sheets(env[1], env[2], env[3])]

fetch_and_store_data ==
    \E env \in Environments :
        LET got == LoadedFrom[env]
        IN  /\ credentials' = env[1]
            /\ spreadsheet' = env[2]
            /\ worksheets' = env[3]
            /\ printed' = got.printed
            /\ WriteOutputs(fetch_and_store_data_return(got))
            /\ UNCHANGED <<callvars, reqvars, kpivars>>

Next == fetch_and_store_data

Spec == Init /\ [][Next]_vars

\* a fetch has run, and it got as far as the three worksheets
Fetched == data_load_status.children # None
SheetsReached == Fetched /\ credentials \in {"env", "file"} /\ spreadsheet = "ok"

\* the ledger sheet was fetched, is not empty, and has no header row or no pair
LedgerStructuralFailure ==
    /\ SheetsReached
    /\ worksheets[ICIC_SHEET].kind = "grid"
    /\ LET g == worksheets[ICIC_SHEET].grid
       IN  /\ ~Empty(g)
           /\ \/ \A r \in 1..Len(g) : ~RowHasMarker(g[r])
              \/ \E r \in 1..Len(g) :
                    /\ RowHasMarker(g[r])
                    /\ \A q \in 1..(r - 1) : ~RowHasMarker(g[q])
                    /\ ExpectedPairs(g[r]) = {}

\* what a store holds after a fetch that loaded its sheet without trouble
StoreOf(out, columns) == IF out.df = <<>> THEN null ELSE to_json(out.df, columns)

\* C5: when the ledger grid is not empty but has no header row, or has one
\* and no pair, the ledger parser returns an empty table and an error message
\* and does not raise: the fetch prints the warning with that message, leaves
\* the ledger store null, and still loads the CANARA and Investments sheets.
C5_LedgerFailureDoesNotStopTheFetch ==
    LedgerStructuralFailure =>
        LET g == worksheets[ICIC_SHEET].grid
            canara == worksheets[CANARA_SHEET]
            investments == worksheets[INVESTMENTS_SHEET]
        IN  /\ \E i \in 1..Len(printed) :
                  /\ printed[i][1] = "ICIC Data Processing Warning"
                  /\ printed[i][2] \in {ICIC_NO_HEADER, ICIC_NO_PAIRS}
                  /\ printed[i][2] = ICIC_NO_HEADER <=> \A r \in 1..Len(g) : ~RowHasMarker(g[r])
            /\ \A i \in 1..Len(printed) : printed[i] # <<"Error loading sheet", ICIC_SHEET>>
            /\ stored_icic_data = null
            /\ loading_error_message = None
            /\ (canara.kind = "grid" /\ ~process_canara_data(canara.grid).raised) =>
                  stored_canara_data = StoreOf(process_canara_data(canara.grid), CANARA_COLUMNS)
            /\ investments.kind = "grid" =>
                  stored_investments_data =
                      StoreOf(process_investments_data(investments.grid), INVESTMENTS_COLUMNS)

C5_Witness ==
    /\ LedgerStructuralFailure
    /\ \E r \in 1..Len(worksheets[ICIC_SHEET].grid) : RowHasMarker(worksheets[ICIC_SHEET].grid[r])
    /\ stored_icic_data = null
    /\ stored_canara_data # null
    /\ stored_investments_data # null

\* the three sheets, and for each its parser, its store and its columns
SHEETS == { ICIC_SHEET, CANARA_SHEET, INVESTMENTS_SHEET }

ParsedSheet(name, grid) ==
    IF name = ICIC_SHEET THEN process_icic_salary_data(grid)
    ELSE IF name = CANARA_SHEET THEN process_canara_data(grid)
    ELSE process_investments_data(grid)

StoreFor(name) ==
    IF name = ICIC_SHEET THEN stored_icic_data
    ELSE IF name = CANARA_SHEET THEN stored_canara_data
    ELSE stored_investments_data

ColumnsOf(name) ==
    IF name = ICIC_SHEET THEN ICIC_COLUMNS
    ELSE IF name = CANARA_SHEET THEN CANARA_COLUMNS
    ELSE INVESTMENTS_COLUMNS

\* the worksheet is missing, its grid fetch raised, or its parser raised
SheetFailed(ws, name) ==
    ws[name].kind # "grid" \/ ParsedSheet(name, ws[name].grid).raised

\* what the sheet gives on its own: nothing when it failed, else its parse
TableOf(ws, name) ==
    IF SheetFailed(ws, name) THEN null
    ELSE StoreOf(ParsedSheet(name, ws[name].grid), ColumnsOf(name))

\* C12: once the spreadsheet is open, a sheet that is missing, whose grid
\* fetch raised or whose parser raised has an empty table (its store null),
\* every other sheet is fetched and parsed as if alone, whatever happened to
\* the others, and the load returns no global error message.
C12_PerSheetIsolation ==
    SheetsReached =>
        /\ loading_error_message = None
        /\ data_load_status.children = SUCCESS
        /\ \A name \in SHEETS : StoreFor(name) = TableOf(worksheets, name)

\* the statement parser raised on a narrow grid, the ledger sheet is missing,
\* and the installments were loaded all the same
C12_Witness ==
    /\ SheetsReached
    /\ worksheets[ICIC_SHEET].kind = "missing"
    /\ worksheets[CANARA_SHEET].kind = "grid"
    /\ process_canara_data(worksheets[CANARA_SHEET].grid).raised
    /\ stored_icic_data = null /\ stored_canara_data = null
    /\ stored_investments_data # null
    /\ loading_error_message = None

\* a grid fetch that raised between two sheets that loaded
C12_WitnessFetchError ==
    /\ SheetsReached
    /\ worksheets[CANARA_SHEET].kind = "error"
    /\ stored_icic_data # null /\ stored_canara_data = null
    /\ stored_investments_data # null

(***************************************************************************)
(* The dashboard with its triggers.  The layout's interval fires every     *)
(* minute and the refresh button at every click, whether or not an earlier *)
(* call of fetch_and_store_data has returned; the server runs each call on *)
(* a thread of its own.  A call is triggered, then loads (the blocking     *)
(* call of load_data_from_google_sheets, which meets the spreadsheet as it *)
(* is at that time), then returns its five outputs.  Whether the page      *)
(* still writes the outputs of a call that a later trigger has overtaken   *)
(* is decided by the Dash renderer, not by this program: the model allows  *)
(* both.  The page's first rendering triggers the first call (id 0).       *)
(***************************************************************************)
MaxTriggers == 3
MaxInFlight == 2

Steady == Worksheets(Grid(IcicGood), Grid(CanaraGood), Grid(InvGood))
Edited == Worksheets(Grid(IcicGood2), Grid(CanaraGood2), Grid(InvGood2))
Damaged == Worksheets(Missing, Grid(CanaraNarrow), Grid(InvGood))

RefreshEnvironments ==
    { <<"env", "ok", Steady>>, <<"env", "ok", Edited>>, <<"env", "ok", Damaged>>,
      <<"env", "error", Unopened>> }

Call(id) == [id |-> id, pc |-> "called", env |-> <<>>]

InitRefresh ==
    /\ pc = Unused /\ column_list = Unused /\ unique_list = Unused
    /\ df_raw = Unused /\ pairs = Unused /\ frames = Unused
    /\ df_result = Unused /\ error_message = Unused /\ raised = Unused
    /\ credentials = "env"
    /\ spreadsheet = "ok"
    /\ worksheets = Steady
    /\ stored_icic_data = null
    /\ stored_canara_data = null
    /\ stored_investments_data = null
    /\ loading_error_message = None
    /\ data_load_status = Div(None, "")
    /\ printed = <<>>
    /\ n_intervals = 0
    /\ n_clicks = 0
    /\ requests = { Call(0) }
    /\ applied = <<>>
    /\ NoKpi

CanTrigger ==
    n_intervals + n_clicks < MaxTriggers /\ Cardinality(requests) < MaxInFlight

\* dcc.Interval: n_intervals changes, which calls the callback
IntervalTick ==
    /\ CanTrigger
    /\ n_intervals' = n_intervals + 1
    /\ requests' = requests \cup { Call(n_intervals + n_clicks + 1) }
    /\ UNCHANGED <<callvars, appvars, kpivars, n_clicks, applied>>

\* the refresh button: n_clicks changes, which calls the callback
RefreshClick ==
    /\ CanTrigger
    /\ n_clicks' = n_clicks + 1
    /\ requests' = requests \cup { Call(n_intervals + n_clicks + 1) }
    /\ UNCHANGED <<callvars, appvars, kpivars, n_intervals, applied>>

\* line 995: the call loads the sheets as they are now
Load(r) ==
    /\ r.pc = "called"
    /\ \E env \in RefreshEnvironments :
          /\ requests' = (requests \ {r}) \cup { [r EXCEPT !.pc = "loaded", !.env = env] }
          /\ credentials' = env[1]
          /\ spreadsheet' = env[2]
          /\ worksheets' = env[3]
          /\ printed' = LoadedFrom[env].printed
    /\ UNCHANGED <<callvars, stored_icic_data, stored_canara_data,
                   stored_investments_data, loading_error_message,
                   data_load_status, n_intervals, n_clicks, applied, kpivars>>

\* lines 997-1009: the call returns and its outputs are written
Return(r) ==
    /\ r.pc = "loaded"
    /\ WriteOutputs(fetch_and_store_data_return(LoadedFrom[r.env]))
    /\ requests' = requests \ {r}
    /\ applied' = Append(applied, r.id)
    /\ UNCHANGED <<callvars, credentials, spreadsheet, worksheets, printed,
                   n_intervals, n_clicks, kpivars>>

\* a later trigger has overtaken the call
Overtaken(r) == r.id < n_intervals + n_clicks

\* the call returns and the page ignores the outputs of an overtaken call
ReturnIgnored(r) ==
    /\ r.pc = "loaded"
    /\ Overtaken(r)
    /\ requests' = requests \ {r}
    /\ UNCHANGED <<callvars, appvars, kpivars, n_intervals, n_clicks, applied>>

NextRefresh ==
    \/ IntervalTick
    \/ RefreshClick
    \/ \E r \in requests : Load(r)
    \/ \E r \in requests : Return(r)
    \/ \E r \in requests : ReturnIgnored(r)

SpecRefresh == InitRefresh /\ [][NextRefresh]_vars

\* the three stores as the readers see them, and the tables one fetch gives
Snapshot == <<stored_icic_data, stored_canara_data, stored_investments_data>>

Tables ==
    [env \in RefreshEnvironments |->
        <<TableOf(env[3], ICIC_SHEET), TableOf(env[3], CANARA_SHEET),
          TableOf(env[3], INVESTMENTS_SHEET)>>]

SnapshotOf(env) == Tables[env]

Opened(env) == env[1] \in {"env", "file"} /\ env[2] = "ok"

\* the stores hold what the page started with, or the tables of one fetch
OneSnapshot ==
    \/ Snapshot = <<null, null, null>>
    \/ \E env \in RefreshEnvironments : Opened(env) /\ Snapshot = SnapshotOf(env)

\* a step changes none of the stores, or a call that had loaded returns and
\* the three stores hold the tables of what that call loaded
AllOrNone ==
    \/ Snapshot' = Snapshot
    \/ \E r \in requests :
          /\ r.pc = "loaded" /\ r \notin requests'
          /\ Opened(r.env)
          /\ Snapshot' = SnapshotOf(r.env)

\* C13: every execution of fetch_and_store_data replaces the three stores
\* together by the tables of its own fetch or changes none of them, and in
\* no reachable state do the stores hold tables of two different fetches.
C13_AtomicSnapshot == []OneSnapshot /\ [][AllOrNone]_vars

\* the stores hold the tables of the edited spreadsheet, written over the
\* tables of the steady one, while another call is still running
C13_Witness ==
    /\ Len(applied) >= 2
    /\ Snapshot = SnapshotOf(<<"env", "ok", Edited>>)
    /\ \E r \in requests : r.pc = "loaded" /\ r.env = <<"env", "ok", Steady>>

\* the latest refresh could not (re)produce the table of the sheet: it did
\* not get to the worksheets, or the sheet is missing, or its fetch or its
\* parser raised, or its parser returned an empty table
NotReproduced(name) ==
    Fetched /\ (~SheetsReached \/ TableOf(worksheets, name) = null)

\* C14 (as claimed): after any refresh that could not (re)produce a table,
\* the failure to authenticate or to open the spreadsheet included, the
\* store of that table is null.
C14_NoStaleTables ==
    \A name \in SHEETS : NotReproduced(name) => StoreFor(name) = null

\* C14 (amended): after a refresh that opened the spreadsheet, the store of
\* every table it could not (re)produce is null; a refresh that did not get
\* to open the spreadsheet leaves the three stores as they were.
C14_NoStaleTablesAmended ==
    /\ [](SheetsReached =>
             \A name \in SHEETS : NotReproduced(name) => StoreFor(name) = null)
    /\ [][~SheetsReached' => Snapshot' = Snapshot]_vars

\* a refresh that lost the ledger sheet and found an empty statement table,
\* next to installments that loaded
C14_Witness ==
    /\ SheetsReached
    /\ worksheets[ICIC_SHEET].kind = "missing"
    /\ worksheets[CANARA_SHEET].kind = "grid"
    /\ process_canara_data(worksheets[CANARA_SHEET].grid).error = CANARA_INSUFFICIENT
    /\ stored_icic_data = null /\ stored_canara_data = null
    /\ stored_investments_data # null

\* a refresh that could not open the spreadsheet, with tables still stored
C14_WitnessRetained ==
    /\ Fetched /\ spreadsheet = "error"
    /\ loading_error_message = SHEET_ERROR
    /\ \A name \in SHEETS : StoreFor(name) # null

\* the latest refresh ended with a failure for the table of the sheet: the
\* sheet is missing, its fetch or its parser raised, or its parser returned
\* an error message
TableFailure(name) ==
    /\ SheetsReached
    /\ \/ SheetFailed(worksheets, name)
       \/ ParsedSheet(name, worksheets[name].grid).error # None

\* C15 (as claimed): whenever a refresh ends with a parser failure or a
\* missing or failed sheet for at least one table, the status output of that
\* refresh (data-load-status, loading-error-message) carries a warning for it
\* and does not report an unqualified success.
C15_FailuresSurfaced ==
    (\E name \in SHEETS : TableFailure(name)) =>
        \/ loading_error_message # None
        \/ data_load_status # Div(SUCCESS, "data-load-alert success-message")

\* the outputs were written in the order in which the calls were triggered
WrittenInOrder == \A i, j \in 1..Len(applied) : i < j => applied[i] < applied[j]

\* C16 (as claimed): at most one call of fetch_and_store_data is in flight at
\* a time, so the outputs of an older call are never written after those of
\* a newer one.
C16_RefreshCyclesSerialized == Cardinality(requests) <= 1 /\ WrittenInOrder

\* the latest refresh ended with a global error: the credentials are missing
\* or cannot be decoded, or the spreadsheet could not be opened
GlobalError == Fetched /\ ~SheetsReached

\* the message of that error
GlobalMessage ==
    IF credentials = "env_undecodable" THEN CREDS_UNDECODABLE
    ELSE IF credentials = "missing" THEN CREDS_MISSING
    ELSE SHEET_ERROR

\* a refresh that ends with a global error changes no store and sets the
\* error message; one that ends without writes the three tables, null for an
\* empty one, and resets the error message
RefreshFrame ==
    /\ GlobalError' =>
          /\ Snapshot' = Snapshot
          /\ loading_error_message' = GlobalMessage'
          /\ loading_error_message' # None
    /\ SheetsReached' =>
          /\ \A name \in SHEETS : StoreFor(name)' = TableOf(worksheets', name)
          /\ loading_error_message' = None

\* C29: over any sequence of refreshes, a refresh whose load returns a global
\* error message leaves the three stores unchanged and sets
\* loading-error-message to that message, and a refresh whose load returns
\* none overwrites the three stores (the serialized table, or null for an
\* empty table) and resets loading-error-message to null: the message is
\* non-null exactly when the most recent refresh did not write the stores.
C29_RefreshErrorFrame ==
    /\ [][RefreshFrame]_vars
    /\ [](Fetched => (loading_error_message # None <=> GlobalError))

\* the credentials went missing after a refresh that had written the ledger
\* and the installments and found no statement: the stores are as they were
C29_Witness ==
    /\ GlobalError /\ credentials = "missing"
    /\ loading_error_message = CREDS_MISSING
    /\ stored_icic_data # null /\ stored_canara_data = null
    /\ stored_investments_data # null

\* a refresh without error: the message is null and the stores are written
C29_WitnessReset ==
    /\ SheetsReached /\ loading_error_message = None
    /\ stored_icic_data = null /\ stored_canara_data # null
    /\ stored_investments_data = null

(***************************************************************************)
(* The metrics callbacks.  An Amount is a number of hundredths; a mean is  *)
(* the exact quotient [sum, count] of a sum by a count, and the KPI texts  *)
(* (the rupee sign, the value to two decimals) stand for the values they   *)
(* spell.  A filter value is None or a list of labels.                     *)
(***************************************************************************)
NA == <<"N/A">>

\* pd.read_json(json, orient='split'): the rows as records, by column name
read_json(json) ==
    LET columns == json[1]
        rows == json[2]
    IN  [i \in 1..Len(rows) |->
            [c \in { columns[j] : j \in 1..Len(columns) } |->
                rows[i][CHOOSE j \in 1..Len(columns) : columns[j] = c]]]

\* `if selected is not None:` in the place of `if selected:`
Truthy_not_None(selected) == selected # None

\* `if selected:` on None or a list
Truthy(selected) == selected # None /\ selected # <<>>

\* df[df[column].isin(selected)]
isin(df, column, selected) == SelectSeq(df, LAMBDA row : InList(row[column], selected))

\* the Filtering logic block of the three callbacks
filtered(df, months, categories) ==
    LET by_month == IF Truthy(months) THEN isin(df, "Month", months) ELSE df
    IN  IF Truthy(categories) THEN isin(by_month, "Category", categories) ELSE by_month

\* df[column].sum()
RECURSIVE ColumnSum(_, _)
ColumnSum(df, column) ==
    IF df = <<>> THEN 0 ELSE Head(df)[column] + ColumnSum(Tail(df), column)

\* the order of str values under sorted(), for the labels of the model
SortRank(label) ==
    CASE label = <<"Feb">> -> 1
      [] label = <<"Food">> -> 2
      [] label = <<"Jan">> -> 3
      [] label = <<"Mar">> -> 4
      [] label = <<"Rent">> -> 5
      [] label = <<"all">> -> 6

\* the keys of a groupby, sorted
RECURSIVE SortedKeys(_)
SortedKeys(keys) ==
    IF keys = {} THEN <<>>
    ELSE LET first == CHOOSE k \in keys : \A other \in keys : SortRank(k) <= SortRank(other)
         IN  <<first>> \o SortedKeys(keys \ {first})

\* an aggregate with one row per month of the calendar, present or not
groupby_calendar(df, key, column) ==
    LET present == { df[i][key] : i \in 1..Len(df) }
        keys == SortedKeys(IF key = "Month" THEN { <<"Jan">>, <<"Feb">>, <<"Mar">> }
                                            ELSE present)
    IN  [g \in 1..Len(keys) |->
            [name |-> keys[g],
             Amount |-> ColumnSum(SelectSeq(df, LAMBDA row : row[key] = keys[g]), column)]]

\* df.groupby(key)[column].sum().reset_index(): one row per key present
groupby_sum(df, key, column) ==
    LET keys == SortedKeys({ df[i][key] : i \in 1..Len(df) })
    IN  [g \in 1..Len(keys) |->
            [name |-> keys[g],
             Amount |-> ColumnSum(SelectSeq(df, LAMBDA row : row[key] = keys[g]), column)]]

\* Series.mean()
mean(summary) == [sum |-> ColumnSum(summary, "Amount"), count |-> Len(summary)]
Zero == [sum |-> 0, count |-> 1]

\* the first row of the aggregate, whatever its Amount
first_row(summary) == 1

\* Series.idxmax() and Series.idxmin(): the first row of the largest, of the
\* smallest Amount
idxmax(summary) ==
    CHOOSE i \in 1..Len(summary) :
        /\ \A j \in 1..Len(summary) : summary[j].Amount <= summary[i].Amount
        /\ \A j \in 1..(i - 1) : summary[j].Amount < summary[i].Amount

idxmin(summary) ==
    CHOOSE i \in 1..Len(summary) :
        /\ \A j \in 1..Len(summary) : summary[j].Amount >= summary[i].Amount
        /\ \A j \in 1..(i - 1) : summary[j].Amount > summary[i].Amount

\* the KPIs of a page without a stored table
NoData ==
    [total |-> 0, average |-> Zero, highest_name |-> NA, highest_value |-> 0,
     lowest_name |-> NA, lowest_value |-> 0, monthly_summary |-> <<>>,
     category_summary |-> <<>>, table_data |-> <<>>]

\* the KPIs of the overview and of the investments page, whose extrema are
\* taken over the aggregate `extrema`
Kpis(filtered_df, monthly_summary, category_summary, extrema) ==
    [total |-> ColumnSum(filtered_df, "Amount"),
     average |-> IF monthly_summary # <<>> THEN mean(monthly_summary) ELSE Zero,
     highest_name |-> IF extrema # <<>> THEN extrema[idxmax(extrema)].name ELSE NA,
     highest_value |-> IF extrema # <<>> THEN extrema[idxmax(extrema)].Amount ELSE 0,
     lowest_name |-> IF extrema # <<>> THEN extrema[idxmin(extrema)].name ELSE NA,
     lowest_value |-> IF extrema # <<>> THEN extrema[idxmin(extrema)].Amount ELSE 0,
     monthly_summary |-> monthly_summary,
     category_summary |-> category_summary,
     table_data |-> filtered_df]

update_main_dashboard_return(icic_json, months, categories) ==
    IF icic_json = null THEN NoData
    ELSE LET filtered_df == filtered(read_json(icic_json), months, categories)
             monthly_summary == groupby_sum(filtered_df, "Month", "Amount")
             category_summary == groupby_sum(filtered_df, "Category", "Amount")
         IN  Kpis(filtered_df, monthly_summary, category_summary, monthly_summary)

update_investments_dashboard_return(investments_json, months, categories) ==
    IF investments_json = null THEN NoData
    ELSE LET filtered_df == filtered(read_json(investments_json), months, categories)
             monthly_summary == groupby_sum(filtered_df, "Month", "Amount")
             category_summary == groupby_sum(filtered_df, "Category", "Amount")
         IN  Kpis(filtered_df, monthly_summary, category_summary, category_summary)

\* df.groupby("Month")[["Credit", "Debit"]].sum().reset_index()
groupby_credit_debit(df, key) ==
    LET keys == SortedKeys({ df[i][key] : i \in 1..Len(df) })
        of(k) == SelectSeq(df, LAMBDA row : row[key] = k)
    IN  [g \in 1..Len(keys) |->
            [name |-> keys[g],
             Credit |-> ColumnSum(of(keys[g]), "Credit"),
             Debit |-> ColumnSum(of(keys[g]), "Debit")]]

\* The bar chart's aggregate is sorted by Credit, largest first, in an order
\* among equal credits that sort_values leaves open: it is kept as a set.
update_savings_monitor_return(canara_json, months, categories) ==
    IF canara_json = null
    THEN [total_credit |-> 0, total_debit |-> 0, net_savings |-> 0,
          monthly_summary |-> <<>>, category_summary |-> {}, table_data |-> <<>>]
    ELSE LET filtered_df == filtered(read_json(canara_json), months, categories)
             total_credit == ColumnSum(filtered_df, "Credit")
             total_debit == ColumnSum(filtered_df, "Debit")
             by_category == groupby_credit_debit(filtered_df, "Category")
         IN  [total_credit |-> total_credit,
              total_debit |-> total_debit,
              net_savings |-> total_credit - total_debit,
              monthly_summary |-> groupby_credit_debit(filtered_df, "Month"),
              category_summary |->
                  { [name |-> by_category[g].name, Credit |-> by_category[g].Credit] :
                      g \in 1..Len(by_category) },
              table_data |-> filtered_df]

(***************************************************************************)
(* The metrics callbacks on their own.  The three stores hold the tables   *)
(* of at most MaxTable entries, each entry one of six (month, category,    *)
(* amount) triples: the ledger and the installments have it as a record,   *)
(* the statement as a debit when the amount is negative and a credit       *)
(* otherwise.  A store of an empty table is null.  Each callback runs once *)
(* on a month filter and a category filter.                                *)
(***************************************************************************)
MaxTable == 3

JAN == <<"Jan">>
FEB == <<"Feb">>
MAR == <<"Mar">>
RENT == <<"Rent">>
ALL == <<"all">>

Entries ==
    { <<JAN, FOOD, 10000>>, <<FEB, FOOD, 30000>>, <<MAR, RENT, 5000>>,
      <<JAN, RENT, 5000>>, <<FEB, RENT, -10000>>, <<MAR, FOOD, 0>> }

MonthFilters == { None, <<>>, <<JAN>>, <<FEB>>, <<MAR>>, <<JAN, FEB>>, <<ALL>>, <<ALL, JAN>> }
CategoryFilters == { None, <<>>, <<FOOD>>, <<RENT>>, <<ALL>> }

AmountRows(entries) ==
    [i \in 1..Len(entries) |->
        [Month |-> entries[i][1], Category |-> entries[i][2], Amount |-> entries[i][3]]]

\* the statement keeps no row whose Debit and Credit are both 0
StatementRowsOf(entries) ==
    LET kept == SelectSeq(entries, LAMBDA entry : entry[3] # 0)
    IN  [i \in 1..Len(kept) |->
            [Month |-> kept[i][1], Description |-> <<>>, Category |-> kept[i][2],
             Debit |-> IF kept[i][3] < 0 THEN -kept[i][3] ELSE 0,
             Credit |-> IF kept[i][3] < 0 THEN 0 ELSE kept[i][3]]]

InitMetrics ==
    /\ column_list = Unused /\ unique_list = Unused
    /\ df_raw = Unused /\ pairs = Unused /\ frames = Unused
    /\ df_result = Unused /\ error_message = Unused /\ raised = Unused
    /\ credentials = Unused /\ spreadsheet = Unused /\ worksheets = Unused
    /\ loading_error_message = None
    /\ data_load_status = Div(SUCCESS, "data-load-alert success-message")
    /\ printed = Unused
    /\ NoReq
    /\ pc = "start"
    /\ \E entries \in SeqsUpTo(Entries, MaxTable) :
          /\ stored_icic_data = json_or_None(AmountRows(entries), ICIC_COLUMNS)
          /\ stored_canara_data = json_or_None(StatementRowsOf(entries), CANARA_COLUMNS)
          /\ stored_investments_data =
                 json_or_None(AmountRows(entries), INVESTMENTS_COLUMNS)
    /\ selected_months = None
    /\ selected_categories = None
    /\ outputs = <<>>
    /\ NoGoal

\* the frame of a metrics callback: it reads a store and writes its outputs
MetricsFrame ==
    UNCHANGED <<column_list, unique_list, df_raw, pairs, frames, df_result,
                error_message, raised, appvars, reqvars, goalvars>>

update_main_dashboard ==
    /\ pc = "start"
    /\ \E months \in MonthFilters, categories \in CategoryFilters :
          /\ selected_months' = months
          /\ selected_categories' = categories
          /\ outputs' = update_main_dashboard_return(stored_icic_data, months, categories)
    /\ pc' = "update_main_dashboard"
    /\ MetricsFrame

update_savings_monitor ==
    /\ pc = "start"
    /\ \E months \in MonthFilters, categories \in CategoryFilters :
          /\ selected_months' = months
          /\ selected_categories' = categories
          /\ outputs' = update_savings_monitor_return(stored_canara_data, months, categories)
    /\ pc' = "update_savings_monitor"
    /\ MetricsFrame

update_investments_dashboard ==
    /\ pc = "start"
    /\ \E months \in MonthFilters, categories \in CategoryFilters :
          /\ selected_months' = months
          /\ selected_categories' = categories
          /\ outputs' = update_investments_dashboard_return(stored_investments_data,
                                                            months, categories)
    /\ pc' = "update_investments_dashboard"
    /\ MetricsFrame

NextMetrics == update_main_dashboard \/ update_savings_monitor \/ update_investments_dashboard

SpecMetrics == InitMetrics /\ [][NextMetrics]_vars

(***************************************************************************)
(* Properties of the metrics callbacks.                                    *)
(***************************************************************************)
Ran(name) == pc = name

\* the table a store holds, and the distinct values of a column
Stored(json) == IF json = null THEN <<>> ELSE read_json(json)
unique(df, column) == { df[i][column] : i \in 1..Len(df) }

\* a filter that is absent or empty
Unfiltered(selected) == selected = None \/ selected = <<>>
Absent(selected) == selected = None
EmptyList(selected) == selected # None /\ selected = <<>>
Selected(selected, labels) == selected # None /\ selected = labels

\* the sum, over the months of a set, of the total a callback computes for
\* the filter of that one month
RECURSIVE TotalsByMonth(_, _, _, _)
TotalsByMonth(return(_, _, _), json, months, categories) ==
    IF months = {} THEN 0
    ELSE LET m == CHOOSE month \in months : TRUE
         IN  return(json, <<m>>, categories).total
                 + TotalsByMonth(return, json, months \ {m}, categories)

Partition(return(_, _, _), json) ==
    (Unfiltered(selected_months) /\ Unfiltered(selected_categories)) =>
        /\ outputs.table_data = Stored(json)
        /\ outputs.total = ColumnSum(Stored(json), "Amount")
        /\ outputs.total =
               TotalsByMonth(return, json, unique(Stored(json), "Month"),
                             selected_categories)

\* C17: without a category filter, the total that update_main_dashboard and
\* update_investments_dashboard compute for an empty or absent month filter
\* is the total of the whole table, and it is the sum over the distinct
\* months m of the table of the total computed for the month filter {m}.
C17_TotalsPartition ==
    /\ Ran("update_main_dashboard") =>
           Partition(update_main_dashboard_return, stored_icic_data)
    /\ Ran("update_investments_dashboard") =>
           Partition(update_investments_dashboard_return, stored_investments_data)

C17_Witness ==
    /\ Ran("update_investments_dashboard")
    /\ EmptyList(selected_months) /\ Absent(selected_categories)
    /\ Cardinality(unique(Stored(stored_investments_data), "Month")) = 3
    /\ outputs.total = 45000

C17_WitnessExpenses ==
    /\ Ran("update_main_dashboard")
    /\ Absent(selected_months) /\ EmptyList(selected_categories)
    /\ Cardinality(unique(Stored(stored_icic_data), "Month")) = 2
    /\ outputs.total = 20000

\* a filter holding the sentinel, and the filter it is claimed to stand for
HasAll(selected) == selected # None /\ InList(ALL, selected)
Expanded(selected) == IF HasAll(selected) THEN None ELSE selected

SentinelExpanded(return(_, _, _), json) ==
    (HasAll(selected_months) \/ HasAll(selected_categories)) =>
        outputs = return(json, Expanded(selected_months), Expanded(selected_categories))

\* C18 (as claimed): a month or category filter that contains 'all' gives,
\* in each of the three metrics callbacks, the results of the table
\* unfiltered in that dimension.
C18_AllSentinelExpanded ==
    /\ Ran("update_main_dashboard") =>
           SentinelExpanded(update_main_dashboard_return, stored_icic_data)
    /\ Ran("update_savings_monitor") =>
           SentinelExpanded(update_savings_monitor_return, stored_canara_data)
    /\ Ran("update_investments_dashboard") =>
           SentinelExpanded(update_investments_dashboard_return, stored_investments_data)

\* the summed Amount of the rows of df whose column `key` is k
SumOf(df, key, k) == ColumnSum(SelectSeq(df, LAMBDA row : row[key] = k), "Amount")

\* the extrema reported over the values of `key` in the filtered table
Extrema(key) ==
    LET df == outputs.table_data
        present == unique(df, key)
    IN  IF df = <<>>
        THEN /\ outputs.highest_name = NA /\ outputs.highest_value = 0
             /\ outputs.lowest_name = NA /\ outputs.lowest_value = 0
        ELSE /\ outputs.highest_name \in present
             /\ outputs.highest_value = SumOf(df, key, outputs.highest_name)
             /\ \A k \in present : SumOf(df, key, k) <= outputs.highest_value
             /\ outputs.lowest_name \in present
             /\ outputs.lowest_value = SumOf(df, key, outputs.lowest_name)
             /\ \A k \in present : SumOf(df, key, k) >= outputs.lowest_value

\* C19: the highest month update_main_dashboard reports is a month of the
\* filtered table whose summed Amount is at least that of every month
\* present, the lowest one whose sum is at most that of every month present,
\* and update_investments_dashboard reports the categories likewise; with an
\* empty filtered table or no stored table both names are 'N/A' and both
\* values 0.
C19_Extrema ==
    /\ Ran("update_main_dashboard") =>
           /\ Extrema("Month")
           /\ outputs.table_data =
                  filtered(Stored(stored_icic_data), selected_months, selected_categories)
    /\ Ran("update_investments_dashboard") =>
           /\ Extrema("Category")
           /\ outputs.table_data =
                  filtered(Stored(stored_investments_data), selected_months,
                           selected_categories)

\* {Jan: 100, Feb: 300, Mar: 50} gives Feb/300 and Mar/50
C19_Witness ==
    /\ Ran("update_main_dashboard")
    /\ outputs.monthly_summary =
           << [name |-> FEB, Amount |-> 30000], [name |-> JAN, Amount |-> 10000],
              [name |-> MAR, Amount |-> 5000] >>
    /\ outputs.highest_name = FEB /\ outputs.highest_value = 30000
    /\ outputs.lowest_name = MAR /\ outputs.lowest_value = 5000

C19_WitnessCategories ==
    /\ Ran("update_investments_dashboard")
    /\ Len(outputs.table_data) = 3
    /\ outputs.highest_name = RENT /\ outputs.highest_value = 10000
    /\ outputs.lowest_name = FOOD /\ outputs.lowest_value = 0

C19_WitnessEmpty ==
    /\ Ran("update_main_dashboard")
    /\ stored_icic_data # null
    /\ Selected(selected_months, <<MAR>>)
    /\ outputs.table_data = <<>>
    /\ outputs.highest_name = NA /\ outputs.lowest_value = 0

\* the monthly aggregate and the average over the filtered table
AveragePerMonth ==
    LET df == outputs.table_data
        present == unique(df, "Month")
        summary == outputs.monthly_summary
    IN  /\ Len(summary) = Cardinality(present)
        /\ { summary[g].name : g \in 1..Len(summary) } = present
        /\ \A g \in 1..Len(summary) :
               summary[g].Amount = SumOf(df, "Month", summary[g].name)
        /\ outputs.average =
               IF df = <<>> THEN Zero
               ELSE [sum |-> ColumnSum(df, "Amount"), count |-> Cardinality(present)]

\* C20: the monthly aggregate of update_main_dashboard and of
\* update_investments_dashboard has exactly one row for each distinct Month
\* of the filtered rows and none for a month that is absent from them, and
\* the average is the sum of the filtered Amounts divided by the number of
\* those months, or 0 when there is no filtered row.
C20_AveragePerMonth ==
    (Ran("update_main_dashboard") \/ Ran("update_investments_dashboard")) =>
        AveragePerMonth

\* two of the three stored months selected: 400.00 over 2 months
C20_Witness ==
    /\ Ran("update_main_dashboard")
    /\ Cardinality(unique(Stored(stored_icic_data), "Month")) = 3
    /\ Selected(selected_months, <<JAN, FEB>>)
    /\ Len(outputs.monthly_summary) = 2
    /\ outputs.average = [sum |-> 40000, count |-> 2]

\* three rows of two months: 450.00 over 2 months, not over 3 rows
C20_WitnessRows ==
    /\ Ran("update_investments_dashboard")
    /\ Len(outputs.table_data) = 3
    /\ outputs.average = [sum |-> 45000, count |-> 2]

C20_WitnessEmpty ==
    /\ Ran("update_investments_dashboard")
    /\ stored_investments_data # null
    /\ outputs.table_data = <<>>
    /\ outputs.average = Zero

(***************************************************************************)
(* calculate_savings_goal.  An input of type number is absent (None, <<>>) *)
(* or a number n (<<n>>); an amount is a number of hundredths, a duration  *)
(* a number of months.  A quotient is the exact pair [num, den] of the     *)
(* division the code makes in floats, and a formatted figure stands for    *)
(* the value it spells.  The output is the children of the Div             *)
(* "savings-goal-output": null before the first result, and kept as they   *)
(* are by a return of no_update.                                           *)
(***************************************************************************)
Given(input) == input # <<>>
Value(input) == input[1]

Quotient(num, den) == [num |-> num, den |-> den]

\* html.P(children, className=className): the message and the figures it
\* spells, and the class
P(children, className) == <<children, className>>

NO_SAVINGS_DATA == "No savings data available to calculate."
NO_HISTORICAL_DATA == "No historical data to calculate savings goal."
CANNOT_PREDICT ==
    "Your historical average monthly net savings is 0.00 or less. Cannot predict time to goal."
WONT_SAVE ==
    "Your historical average monthly net savings is 0.00 or less. You won't save anything in this duration."
DURATION_NOT_POSITIVE == "Duration must be a positive number of months."
TARGET_NOT_POSITIVE == "Target amount must be a positive number."
ENTER_VALID_NUMBERS == "Please enter valid numbers for target amount and/or duration."
TIME_NEEDED ==
    "At your historical average monthly net savings of {avg}, it will take approximately {time_needed_months} months to save {target_amount}."
PROJECTED ==
    "At your historical average monthly net savings of {avg}, you will save approximately {projected_savings} in {duration} months."
CONTRIBUTION_NEEDED ==
    "To save {target_amount} in {duration} months, you need to save {monthly_contribution_needed} per month."

\* "Net Savings" as Debit - Credit
net_savings_by_month_swapped(df_canara) ==
    LET monthly_summary == groupby_credit_debit(df_canara, "Month")
    IN  [g \in 1..Len(monthly_summary) |->
            [name |-> monthly_summary[g].name,
             Credit |-> monthly_summary[g].Credit,
             Debit |-> monthly_summary[g].Debit,
             Amount |-> monthly_summary[g].Debit - monthly_summary[g].Credit]]

\* monthly_summary with its "Net Savings" column
net_savings_by_month(df_canara) ==
    LET monthly_summary == groupby_credit_debit(df_canara, "Month")
    IN  [g \in 1..Len(monthly_summary) |->
            [name |-> monthly_summary[g].name,
             Credit |-> monthly_summary[g].Credit,
             Debit |-> monthly_summary[g].Debit,
             Amount |-> monthly_summary[g].Credit - monthly_summary[g].Debit]]

\* the sum of the monthly net savings, undivided
historical_sum(monthly_summary) == Quotient(ColumnSum(monthly_summary, "Amount"), 1)

\* monthly_summary["Net Savings"].mean(), as the quotient of a sum by a count
historical_avg(monthly_summary) ==
    Quotient(ColumnSum(monthly_summary, "Amount"), Len(monthly_summary))

\* the duration-only branch looking at the average before the duration
calculate_savings_goal_return_avg_first(clicks, target, months, canara_json) ==
    IF ~Given(clicks) \/ Value(clicks) = 0 THEN no_update
    ELSE IF canara_json = null THEN P(<<NO_SAVINGS_DATA>>, "text-danger")
    ELSE
    LET monthly_summary == net_savings_by_month(read_json(canara_json))
        avg == historical_avg(monthly_summary)
    IN  IF monthly_summary = <<>> THEN P(<<NO_HISTORICAL_DATA>>, "text-warning")
        ELSE IF Given(target) /\ ~Given(months)
        THEN IF avg.num <= 0 THEN P(<<CANNOT_PREDICT>>, "text-warning")
             ELSE P(<<TIME_NEEDED, avg,
                      Quotient(Value(target) * avg.den, avg.num), Value(target)>>, None)
        ELSE IF Given(months) /\ ~Given(target)
        THEN IF avg.num <= 0 THEN P(<<WONT_SAVE>>, "text-warning")
             ELSE IF Value(months) <= 0 THEN P(<<DURATION_NOT_POSITIVE>>, "text-danger")
             ELSE P(<<PROJECTED, avg,
                      Quotient(avg.num * Value(months), avg.den), Value(months)>>, None)
        ELSE IF Given(target) /\ Given(months)
        THEN IF Value(months) <= 0 THEN P(<<DURATION_NOT_POSITIVE>>, "text-danger")
             ELSE IF Value(target) <= 0 THEN P(<<TARGET_NOT_POSITIVE>>, "text-danger")
             ELSE P(<<CONTRIBUTION_NEEDED, Value(target), Value(months),
                      Quotient(Value(target), Value(months))>>, "text-info")
        ELSE P(<<ENTER_VALID_NUMBERS>>, "text-danger")

\* the target-only branch refusing a target that is not positive
calculate_savings_goal_return_target_checked(clicks, target, months, canara_json) ==
    IF ~Given(clicks) \/ Value(clicks) = 0 THEN no_update
    ELSE IF canara_json = null THEN P(<<NO_SAVINGS_DATA>>, "text-danger")
    ELSE
    LET monthly_summary == net_savings_by_month(read_json(canara_json))
        avg == historical_avg(monthly_summary)
    IN  IF monthly_summary = <<>> THEN P(<<NO_HISTORICAL_DATA>>, "text-warning")
        ELSE IF Given(target) /\ ~Given(months)
        THEN IF Value(target) <= 0 THEN P(<<TARGET_NOT_POSITIVE>>, "text-danger")
             ELSE IF avg.num <= 0 THEN P(<<CANNOT_PREDICT>>, "text-warning")
             ELSE P(<<TIME_NEEDED, avg,
                      Quotient(Value(target) * avg.den, avg.num), Value(target)>>, None)
        ELSE IF Given(months) /\ ~Given(target)
        THEN IF Value(months) <= 0 THEN P(<<DURATION_NOT_POSITIVE>>, "text-danger")
             ELSE IF avg.num <= 0 THEN P(<<WONT_SAVE>>, "text-warning")
             ELSE P(<<PROJECTED, avg,
                      Quotient(avg.num * Value(months), avg.den), Value(months)>>, None)
        ELSE IF Given(target) /\ Given(months)
        THEN IF Value(months) <= 0 THEN P(<<DURATION_NOT_POSITIVE>>, "text-danger")
             ELSE IF Value(target) <= 0 THEN P(<<TARGET_NOT_POSITIVE>>, "text-danger")
             ELSE P(<<CONTRIBUTION_NEEDED, Value(target), Value(months),
                      Quotient(Value(target), Value(months))>>, "text-info")
        ELSE P(<<ENTER_VALID_NUMBERS>>, "text-danger")

calculate_savings_goal_return(clicks, target, months, canara_json) ==
    IF ~Given(clicks) \/ Value(clicks) = 0 THEN no_update
    ELSE IF canara_json = null THEN P(<<NO_SAVINGS_DATA>>, "text-danger")
    ELSE
    LET monthly_summary == net_savings_by_month(read_json(canara_json))
        avg == historical_avg(monthly_summary)
    IN  IF monthly_summary = <<>> THEN P(<<NO_HISTORICAL_DATA>>, "text-warning")
        ELSE IF Given(target) /\ ~Given(months)
        THEN IF avg.num <= 0 THEN P(<<CANNOT_PREDICT>>, "text-warning")
             ELSE P(<<TIME_NEEDED, avg,
                      Quotient(Value(target) * avg.den, avg.num), Value(target)>>, None)
        ELSE IF Given(months) /\ ~Given(target)
        THEN IF Value(months) <= 0 THEN P(<<DURATION_NOT_POSITIVE>>, "text-danger")
             ELSE IF avg.num <= 0 THEN P(<<WONT_SAVE>>, "text-warning")
             ELSE P(<<PROJECTED, avg,
                      Quotient(avg.num * Value(months), avg.den), Value(months)>>, None)
        ELSE IF Given(target) /\ Given(months)
        THEN IF Value(months) <= 0 THEN P(<<DURATION_NOT_POSITIVE>>, "text-danger")
             ELSE IF Value(target) <= 0 THEN P(<<TARGET_NOT_POSITIVE>>, "text-danger")
             ELSE P(<<CONTRIBUTION_NEEDED, Value(target), Value(months),
                      Quotient(Value(target), Value(months))>>, "text-info")
        ELSE P(<<ENTER_VALID_NUMBERS>>, "text-danger")

(***************************************************************************)
(* The savings page.  The statement store holds a table of at most         *)
(* MaxStatement entries; update_savings_monitor runs on the filters        *)
(* selected, then the goal calculator's callback runs once on the clicks   *)
(* of its button and the two inputs.                                       *)
(***************************************************************************)
MaxStatement == 2

GoalEntries ==
    { <<JAN, FOOD, 10000>>, <<JAN, RENT, -10000>>, <<FEB, FOOD, 30000>>,
      <<FEB, RENT, -10000>>, <<MAR, RENT, 5000>>, <<JAN, FOOD, 400000>> }

Clicks == { <<>>, <<0>>, <<1>> }
Targets == { <<>>, <<-5000>>, <<0>>, <<6000000>> }
Durations == { <<>>, <<-1>>, <<0>>, <<12>> }

InitSavings ==
    /\ column_list = Unused /\ unique_list = Unused
    /\ df_raw = Unused /\ pairs = Unused /\ frames = Unused
    /\ df_result = Unused /\ error_message = Unused /\ raised = Unused
    /\ credentials = Unused /\ spreadsheet = Unused /\ worksheets = Unused
    /\ loading_error_message = None
    /\ data_load_status = Div(SUCCESS, "data-load-alert success-message")
    /\ printed = Unused
    /\ NoReq
    /\ pc = "start"
    /\ stored_icic_data = null
    /\ stored_investments_data = null
    /\ \E entries \in SeqsUpTo(GoalEntries, MaxStatement) :
          stored_canara_data = json_or_None(StatementRowsOf(entries), CANARA_COLUMNS)
    /\ selected_months = None
    /\ selected_categories = None
    /\ outputs = <<>>
    /\ goal_clicks = <<0>>
    /\ target_amount = <<>>
    /\ duration = <<>>
    /\ goal_output = null

calculate_savings_goal ==
    /\ pc = "update_savings_monitor"
    /\ \E clicks \in Clicks, target \in Targets, months \in Durations :
          /\ goal_clicks' = clicks
          /\ target_amount' = target
          /\ duration' = months
          /\ goal_output' =
                 Output(calculate_savings_goal_return(clicks, target, months,
                                                      stored_canara_data),
                        goal_output)
    /\ pc' = "calculate_savings_goal"
    /\ UNCHANGED <<column_list, unique_list, df_raw, pairs, frames, df_result,
                   error_message, raised, appvars, reqvars,
                   selected_months, selected_categories, outputs>>

NextSavings == update_savings_monitor \/ calculate_savings_goal

SpecSavings == InitSavings /\ [][NextSavings]_vars

(***************************************************************************)
(* Properties of the savings page.                                         *)
(***************************************************************************)
\* sum(Credit) - sum(Debit) over the rows of df
NetOf(df) == ColumnSum(df, "Credit") - ColumnSum(df, "Debit")

RowsOfMonth(df, month) == SelectSeq(df, LAMBDA row : row.Month = month)

Statement == Stored(stored_canara_data)

\* the goal calculator has shown the message, and the i-th thing it spells
Says(message) == goal_output # null /\ goal_output[1][1] = message
Figure(i) == goal_output[1][i]

\* the calculator was clicked with a statement table stored
Calculated ==
    /\ Ran("calculate_savings_goal")
    /\ Given(goal_clicks) /\ Value(goal_clicks) > 0
    /\ stored_canara_data # null

\* C21: update_savings_monitor reports as net savings the sum of Credit
\* minus the sum of Debit over the filtered rows, and the net savings the
\* goal calculator takes per month are the month's sum of Credit minus its
\* sum of Debit, one for every month of the stored table, whose mean is the
\* average it reports.
C21_NetSavings ==
    /\ (Ran("update_savings_monitor") \/ Ran("calculate_savings_goal")) =>
           /\ outputs.table_data =
                  filtered(Statement, selected_months, selected_categories)
           /\ outputs.total_credit = ColumnSum(outputs.table_data, "Credit")
           /\ outputs.total_debit = ColumnSum(outputs.table_data, "Debit")
           /\ outputs.net_savings = NetOf(outputs.table_data)
    /\ Calculated =>
           LET by_month == net_savings_by_month(Statement)
           IN  /\ { by_month[g].name : g \in 1..Len(by_month) } = unique(Statement, "Month")
               /\ Len(by_month) = Cardinality(unique(Statement, "Month"))
               /\ \A g \in 1..Len(by_month) :
                      by_month[g].Amount = NetOf(RowsOfMonth(Statement, by_month[g].name))
               /\ (Says(TIME_NEEDED) \/ Says(PROJECTED)) =>
                      Figure(2) = Quotient(NetOf(Statement), Len(by_month))

\* credits of 4,000.00 in Jan and debits of 100.00 in Feb: 3,900.00 over 2 months
C21_Witness ==
    /\ Calculated
    /\ Says(TIME_NEEDED)
    /\ Len(Statement) = 2
    /\ Figure(2) = Quotient(390000, 2)
    /\ Selected(selected_months, <<FEB>>)
    /\ outputs.net_savings = -10000

\* the statement tables the store can hold
StatementTables ==
    { json_or_None(StatementRowsOf(entries), CANARA_COLUMNS) :
        entries \in SeqsUpTo(GoalEntries, MaxStatement) } \ { null }

\* target / months is more than the historical average of the table
SavingTooLittle(canara_json, target, months) ==
    LET avg == historical_avg(net_savings_by_month(read_json(canara_json)))
    IN  Value(target) * avg.den > avg.num * Value(months)

\* C22 (as claimed): with a target and a duration > 0, the result spells
\* monthly_required = target / duration and tells whether that is more than
\* the historical average or not: a table on the other side of the
\* requirement gives another result.
C22_GoalComparedWithAverage ==
    (/\ Calculated
     /\ Given(target_amount) /\ Value(target_amount) > 0
     /\ Given(duration) /\ Value(duration) > 0) =>
        /\ Says(CONTRIBUTION_NEEDED)
        /\ Figure(4) = Quotient(Value(target_amount), Value(duration))
        /\ \A other \in StatementTables :
               (SavingTooLittle(other, target_amount, duration)
                    # SavingTooLittle(stored_canara_data, target_amount, duration)) =>
                   calculate_savings_goal_return(goal_clicks, target_amount, duration, other)
                       # goal_output

\* C23: with a target and no duration, the average the goal calculator uses
\* is the net savings of the whole stored statement table divided by the
\* number of its distinct months, whatever the filters of the page select;
\* when it is more than 0 the result spells months_needed = target / avg,
\* and otherwise the result is the 'cannot predict' message, without a
\* figure.
C23_TargetOnly ==
    (Calculated /\ Given(target_amount) /\ ~Given(duration)) =>
        LET sum == NetOf(Statement)
            count == Cardinality(unique(Statement, "Month"))
        IN  IF sum > 0
            THEN /\ Says(TIME_NEEDED)
                 /\ Figure(2) = Quotient(sum, count)
                 /\ Figure(3) = Quotient(Value(target_amount) * count, sum)
                 /\ Figure(4) = Value(target_amount)
            ELSE goal_output = P(<<CANNOT_PREDICT>>, "text-warning")

\* 60,000.00 at 3,900.00 over 2 months, with the page filtered to one month
C23_Witness ==
    /\ Calculated /\ Says(TIME_NEEDED)
    /\ target_amount = <<6000000>>
    /\ Figure(3) = Quotient(12000000, 390000)
    /\ Selected(selected_months, <<JAN>>)
    /\ Selected(selected_categories, <<FOOD>>)
    /\ Len(outputs.table_data) = 1

\* an average of exactly 0
C23_WitnessCannotPredict ==
    /\ Calculated /\ Says(CANNOT_PREDICT)
    /\ Len(Statement) = 2 /\ NetOf(Statement) = 0

\* the results that reject the inputs
DurationRejected == goal_output = P(<<DURATION_NOT_POSITIVE>>, "text-danger")
InputsRejected == goal_output = P(<<ENTER_VALID_NUMBERS>>, "text-danger")

InvalidInput(invoked) ==
    /\ (invoked /\ Given(duration) /\ Value(duration) <= 0) => DurationRejected
    /\ (invoked /\ ~Given(target_amount) /\ ~Given(duration)) => InputsRejected

\* C24 (as claimed): every invocation of calculate_savings_goal with a
\* duration <= 0 gives the invalid-input result, and so does every invocation
\* with neither a target nor a duration.
C24_InvalidInput == InvalidInput(Ran("calculate_savings_goal"))

\* C24 (amended): every invocation with a click count above 0 and a stored
\* statement table gives the invalid-input result when the duration is <= 0,
\* with or without a target and whatever the average, and when neither a
\* target nor a duration is given.
C24_InvalidInputAmended == InvalidInput(Calculated)

\* a duration of 0 next to a target, on a table whose average is below 0
C24_Witness ==
    /\ Calculated /\ DurationRejected
    /\ duration = <<0>> /\ target_amount = <<6000000>>
    /\ NetOf(Statement) < 0

C24_WitnessDurationOnly ==
    /\ Calculated /\ DurationRejected
    /\ duration = <<-1>> /\ target_amount = <<>>
    /\ NetOf(Statement) <= 0

C24_WitnessNeither ==
    /\ Calculated /\ InputsRejected
    /\ duration = <<>> /\ target_amount = <<>>

\* the button has been clicked at least once
Clicked == Given(goal_clicks) /\ Value(goal_clicks) > 0

NoSavingsData == goal_output = P(<<NO_SAVINGS_DATA>>, "text-danger")
TargetRejected == goal_output = P(<<TARGET_NOT_POSITIVE>>, "text-danger")

\* what a call of the goal calculator leaves in savings-goal-output, in the
\* order in which it decides
GoalPrecedence ==
    /\ ~Clicked' => goal_output' = goal_output
    /\ (Clicked' /\ stored_canara_data' = null) => NoSavingsData'
    /\ (/\ Clicked' /\ stored_canara_data' # null
        /\ Given(target_amount') /\ Given(duration')
        /\ Value(duration') > 0 /\ Value(target_amount') <= 0) => TargetRejected'
    /\ (/\ Clicked' /\ stored_canara_data' # null
        /\ Given(target_amount') /\ ~Given(duration')
        /\ Value(target_amount') <= 0 /\ NetOf(Statement') > 0) =>
           /\ Says(TIME_NEEDED)'
           /\ Figure(3)' = Quotient(Value(target_amount')
                                       * Cardinality(unique(Statement', "Month")),
                                   NetOf(Statement'))

\* C30: calculate_savings_goal gives no update when the click count is 0 or
\* absent; otherwise, with no statement table stored, it gives the 'no
\* savings data' result whatever the target and the duration are; otherwise
\* a target <= 0 next to a duration > 0 gives an invalid-input result, while
\* a target <= 0 on its own is accepted and a months figure is computed
\* whenever the historical average is more than 0.
C30_GoalPrecedence == [][Ran("calculate_savings_goal")' => GoalPrecedence]_vars

\* a target of -50.00 on its own, on a table whose average is above 0
C30_Witness ==
    /\ Ran("calculate_savings_goal") /\ Clicked
    /\ target_amount = <<-5000>> /\ duration = <<>>
    /\ NetOf(Statement) > 0
    /\ Says(TIME_NEEDED)
    /\ Figure(3).num < 0

\* the same target next to a duration of 12 months
C30_WitnessTargetRejected ==
    /\ Ran("calculate_savings_goal") /\ Clicked
    /\ target_amount = <<-5000>> /\ duration = <<12>>
    /\ stored_canara_data # null
    /\ TargetRejected

\* no table stored, and a duration of 0 that is not looked at
C30_WitnessNoData ==
    /\ Ran("calculate_savings_goal") /\ Clicked
    /\ stored_canara_data = null
    /\ target_amount = <<>> /\ duration = <<0>>
    /\ NoSavingsData

\* the call of the page's first rendering, with the inputs filled in
C30_WitnessNoUpdate ==
    /\ Ran("calculate_savings_goal") /\ goal_clicks = <<0>>
    /\ target_amount = <<6000000>> /\ duration = <<12>>
    /\ goal_output = null

(***************************************************************************)
(* The installment countdown.  The page declares the three KPIs            *)
(* "lic-installments-kpi", "kumaran-installments-kpi" and                  *)
(* "thangamayil-installments-kpi" with the text N/A; the callback that     *)
(* fills them is not in this revision and is taken from section 4.5 of the *)
(* specification, with the totals of its examples.  The stored table has,  *)
(* as the installment parser builds it, one block of rows per category, of *)
(* at most MaxPaid rows.                                                   *)
(***************************************************************************)
MaxPaid == 9

KUMARAN_NAME == <<"KUMARAN">>
THANGAMAYIL == <<"THANGAMAYIL">>

InstallmentCategories == { LIC, KUMARAN_NAME, THANGAMAYIL }

\* the configured number of installments of each category
TotalInstallments ==
    [category \in InstallmentCategories |->
        CASE category = LIC -> 15
          [] category = KUMARAN_NAME -> 5
          [] category = THANGAMAYIL -> 10]

\* the number of rows of the category in the table
paid_installments(df, category) ==
    Len(SelectSeq(df, LAMBDA row : row.Category = category))

\* total - paid, also when more were paid than the total
remaining_unclamped(df, category) ==
    TotalInstallments[category] - paid_installments(df, category)

\* max(0, total - paid)
remaining_installments(df, category) ==
    LET left == TotalInstallments[category] - paid_installments(df, category)
    IN  IF left > 0 THEN left ELSE 0

update_installments_kpis_return(investments_json, months, categories) ==
    IF investments_json = null
    THEN [lic |-> NA, kumaran |-> NA, thangamayil |-> NA]
    ELSE LET df_investments == read_json(investments_json)
         IN  [lic |-> <<remaining_installments(df_investments, LIC)>>,
              kumaran |-> <<remaining_installments(df_investments, KUMARAN_NAME)>>,
              thangamayil |-> <<remaining_installments(df_investments, THANGAMAYIL)>>]

\* n rows of a category, a month after the other
Block(category, n) ==
    [i \in 1..n |->
        [Category |-> category,
         Month |-> CASE i % 3 = 1 -> JAN [] i % 3 = 2 -> FEB [] OTHER -> MAR,
         Amount |-> 500000]]

InstallmentFilters == { None, <<>>, <<LIC>>, <<KUMARAN_NAME, THANGAMAYIL>> }

InitCountdown ==
    /\ column_list = Unused /\ unique_list = Unused
    /\ df_raw = Unused /\ pairs = Unused /\ frames = Unused
    /\ df_result = Unused /\ error_message = Unused /\ raised = Unused
    /\ credentials = Unused /\ spreadsheet = Unused /\ worksheets = Unused
    /\ loading_error_message = None
    /\ data_load_status = Div(SUCCESS, "data-load-alert success-message")
    /\ printed = Unused
    /\ NoReq /\ NoGoal
    /\ pc = "start"
    /\ stored_icic_data = null
    /\ stored_canara_data = null
    /\ \E lic \in 0..MaxPaid, kumaran \in 0..MaxPaid, thangamayil \in 0..MaxPaid :
          stored_investments_data =
              json_or_None(Block(LIC, lic) \o Block(KUMARAN_NAME, kumaran)
                               \o Block(THANGAMAYIL, thangamayil),
                           INVESTMENTS_COLUMNS)
    /\ selected_months = None
    /\ selected_categories = None
    /\ outputs = [lic |-> NA, kumaran |-> NA, thangamayil |-> NA]

update_installments_kpis ==
    /\ pc = "start"
    /\ \E months \in MonthFilters, categories \in InstallmentFilters :
          /\ selected_months' = months
          /\ selected_categories' = categories
          /\ outputs' = update_installments_kpis_return(stored_investments_data,
                                                        months, categories)
    /\ pc' = "update_installments_kpis"
    /\ MetricsFrame

NextCountdown == update_installments_kpis

SpecCountdown == InitCountdown /\ [][NextCountdown]_vars

\* the rows of a category in the stored installments
Paid(category) ==
    Cardinality({ i \in 1..Len(Stored(stored_investments_data)) :
                    Stored(stored_investments_data)[i].Category = category })

Remaining(category) ==
    CASE category = LIC -> outputs.lic
      [] category = KUMARAN_NAME -> outputs.kumaran
      [] category = THANGAMAYIL -> outputs.thangamayil

RepeatsBefore(list, i) ==
    Cardinality({ j \in 1..(i - 1) : Strip(list[j]) = Strip(list[i]) })

\* v_k
WithSuffix(v, k) == v \o <<"_">> \o IntToStr(k)

\* the first occurrence of v is v, its k-th repeat v_k
NumberedByRepeat ==
    \A i \in 1..Len(column_list) :
        LET v == Strip(column_list[i])
            k == RepeatsBefore(column_list, i)
        IN  unique_list[i] = IF k = 0 THEN v ELSE WithSuffix(v, k)

\* a label of the list that reads as another label of it with a suffix
LooksSuffixed(list) ==
    \E i, j \in 1..Len(list) : \E k \in 1..Len(list) :
        Strip(list[i]) = WithSuffix(Strip(list[j]), k)

\* C26 (as claimed): for every input list, the first occurrence of a trimmed
\* value v is output as v and its k-th repeat as v_k, also when the list has
\* labels that look like suffixed names.
C26_SuffixNumbering == pc = "done" => NumberedByRepeat

\* C26 (amended): for every input list none of whose trimmed labels is
\* another of its trimmed labels followed by _ and a number, the first
\* occurrence of a trimmed value v is output as v and its k-th repeat as v_k.
C26_SuffixNumberingAmended ==
    (pc = "done" /\ ~LooksSuffixed(column_list)) => NumberedByRepeat

\* A, A padded, B, A gives A, A_1, B, A_2
C26_Witness ==
    /\ pc = "done"
    /\ column_list = << <<"A">>, <<" ", "A", " ">>, <<"B">>, <<"A">> >>
    /\ unique_list = << <<"A">>, <<"A", "_", "1">>, <<"B">>, <<"A", "_", "2">> >>

(***************************************************************************)
(* More properties of the ledger parser.                                   *)
(***************************************************************************)
\* the rows of the raw grid with a cell that, trimmed and upper-cased,
\* contains the marker, and the topmost of them (0 when there is none)
MarkerRows ==
    { r \in 1..Len(df_raw) :
        \E c \in 1..Len(df_raw[r]) :
            Contains(Upper(Strip(df_raw[r][c])), EXPENSES_CATEGORY) }

TopMarkerRow ==
    IF MarkerRows = {} THEN 0
    ELSE CHOOSE r \in MarkerRows : \A other \in MarkerRows : r <= other

RowsBelow(r) == SubSeq(df_raw, r + 1, Len(df_raw))

\* C27: the header row is the topmost row with a cell whose trimmed,
\* upper-cased text contains 'EXPENSES CATEGORY'; the records are those of the
\* rows below it, later rows with the marker included, under the columns of
\* that first header, and no row above it gives a record; without such a
\* row the parser reports that the header is missing.
C27_TopmostHeaderRow ==
    (pc = "done" /\ ~Empty(df_raw)) =>
        LET h == TopMarkerRow
        IN  IF h = 0
            THEN df_result = <<>> /\ error_message = ICIC_NO_HEADER
            ELSE IF ExpectedPairs(df_raw[h]) = {}
            THEN df_result = <<>> /\ error_message = ICIC_NO_PAIRS
            ELSE /\ error_message = None
                 /\ df_result =
                        ExpectedRecords(df_raw[h], RowsBelow(h), MonthOfColumnName)

\* a second row with the marker, below the header, is read as a data row
C27_Witness ==
    /\ pc = "done"
    /\ MarkerRows = { 1, 2 }
    /\ Len(df_raw) = 3
    /\ Len(df_result) >= 1

\* a header in the second row
C27_WitnessLower ==
    /\ pc = "done"
    /\ TopMarkerRow = 2
    /\ Len(df_result) >= 1

\* a row of data above the header gives no record
C27_WitnessAbove ==
    /\ pc = "done"
    /\ TopMarkerRow = 3
    /\ ExpectedPairs(df_raw[3]) # {}
    /\ \E p \in ExpectedPairs(df_raw[3]) : Kept(df_raw[2], p)
    /\ df_result = <<>> /\ error_message = None

\* the header row reuses a category label
ReusedCategoryLabel(hdr) ==
    \E i, j \in 1..Len(hdr) :
        i # j /\ IsCategoryLabel(hdr[i]) /\ Strip(hdr[i]) = Strip(hdr[j])

\* the Category and the Amount of a record
Values(records) ==
    [i \in 1..Len(records) |-> <<records[i].Category, records[i].Amount>>]

\* C28: when the header row repeats a category label, each pair names the
\* column of its own nearest-preceding category label and its own amount
\* column, no two pairs have the same amount column, and the Category and
\* Amount of the records are read from the columns at those positions.
C28_ReusedLabelsReadOwnColumns ==
    (Parsed /\ ReusedCategoryLabel(RawHeader)) =>
        LET pcs == PairColumns(RawHeader, pairs)
        IN  /\ \A k \in 1..Len(pcs) :
                   /\ pcs[k][1] < pcs[k][2]
                   /\ IsCategoryLabel(RawHeader[pcs[k][1]])
                   /\ IsAmountLabel(RawHeader[pcs[k][2]])
                   /\ \A d \in (pcs[k][1] + 1)..(pcs[k][2] - 1) :
                          ~IsCategoryLabel(RawHeader[d])
            /\ \A k, l \in 1..Len(pcs) : k # l => pcs[k][2] # pcs[l][2]
            /\ Values(df_result) =
                   Values(ExpectedRecords(RawHeader, DataRows, MonthOfRawLabel))

\* Expenses Category twice, then Amount Spent in Jan and AMOUNT SPENT IN Feb 24:
\* both pairs read the Category from the second column, not from the first
C28_Witness ==
    /\ Parsed
    /\ RawHeader = <<EC, EC, AJ, AF>>
    /\ PairColumns(RawHeader, pairs) = << <<2, 3>>, <<2, 4>> >>
    /\ Len(DataRows) = 1
    /\ Values(df_result) =
           << << <<"1", ",", "2", "3", "4", ".", "5", "0">>, -500 >> >>

\* Expenses Category, Amount Spent in Jan, Expenses Category, AMOUNT SPENT IN
\* Feb 24: the second pair names the third and fourth columns
C28_WitnessAlternating ==
    /\ Parsed
    /\ RawHeader = <<EC, AJ, EC, AF>>
    /\ pairs[2].cat_col = EC \o <<"_", "1">>
    /\ PairColumns(RawHeader, pairs) = << <<1, 2>>, <<3, 4>> >>
    /\ Len(df_result) = 2
====
